---- MODULE Spec2Model ----
(***************************************************************************)
(* Model of the exact timetable generator (src/app/generator.py):          *)
(* TimetableGenerator.generate = load_data, create_variables,              *)
(* add_constraints, solve, save_to_database, over the storage tables.      *)
(* The CP-SAT solver is modelled by its contract: it returns any 0/1       *)
(* assignment that satisfies every constraint added to the model, reports  *)
(* INFEASIBLE when there is none, and may give up (UNKNOWN) at the time    *)
(* limit.                                                                  *)
(***************************************************************************)
EXTENDS Integers, Sequences, FiniteSets, Bags, TLC

VARIABLES
    db,                 \* the read-only tables: courses, faculty, rooms, time_slots,
                        \* constraints, faculty_assignments, enrollments
    timetable_entries,  \* table timetable_entries: a bag of rows
    pc,                 \* where each generate call stands
    self,               \* the fields of each TimetableGenerator object
    args,               \* the arguments of each generate call
    solution,           \* generate's local `solution`, as solve returned it
    saved,              \* save_to_database: inserts done so far, and its return value
    result,             \* the dict generate returned
    nep,                \* a run of a heuristic generator: its arguments, its locals
                        \* and the schedule it has built so far
    report              \* the compliance reports computed for a list of subjects

vars == <<db, timetable_entries, pc, self, args, solution, saved, result, nep, report>>

-----------------------------------------------------------------------------
(* Bounds of the model *)

\* at most this many decision variables in a generated problem
MaxVars == 6
\* total course hours range over 0, 10 and 15 * k for k in 1..MaxWeekly
MaxWeekly == 2
\* copies of the earlier generation's row stored under each key at the start
MaxPrior == 1

(* Program constants *)

\* weeks of a semester: required hours = total_hours // 15
WeeksInTerm == 15
\* student count assumed for a course without enrollment records
DefaultStudents == 30

-----------------------------------------------------------------------------
(* Identifiers and value sets *)

Gens == {"g1", "g2"}

Semesters == {"Fall", "Spring"}
Years == {"2024-25", "2025-26"}

Course(id, prog, th, pr, tu) ==
    [id |-> id, program_id |-> prog, theory_hours |-> th,
     practical_hours |-> pr, tutorial_hours |-> tu]

Room(id, cap, type, avail) ==
    [id |-> id, capacity |-> cap, room_type |-> type, is_available |-> avail]

Slot(id, day, start, type) ==
    [id |-> id, day_of_week |-> day, start_time |-> start, end_time |-> start + 1,
     slot_type |-> type]

\* availability: a map from str(day) to a record that may hold `available`;
\* the empty map stands for None and for {} alike (both are falsy in the code)
Faculty(id, availability) == [id |-> id, availability |-> availability]

Link(c, f, sem, yr) ==
    [course_id |-> c, faculty_id |-> f, semester |-> sem, academic_year |-> yr]

Constraint(id, hard) == [id |-> id, is_hard_constraint |-> hard]

Row(c, f, r, s, sem, yr) ==
    [course_id |-> c, faculty_id |-> f, room_id |-> r, time_slot_id |-> s,
     semester |-> sem, academic_year |-> yr]

-----------------------------------------------------------------------------
(* Sequence helpers *)

Range(s) == {s[i] : i \in DOMAIN s}

RECURSIVE Flatten(_)
Flatten(ss) == IF ss = <<>> THEN <<>> ELSE Head(ss) \o Flatten(Tail(ss))

\* the elements of a set of numbers in ascending order
SetToSeq(S) ==
    [n \in 1..Cardinality(S) |->
        CHOOSE x \in S : Cardinality({y \in S : y < x}) = n - 1]

\* the subsequence of s at the positions in keep, in ascending order
SubSeqAt(s, keep) ==
    LET idx == SetToSeq(keep \cap DOMAIN s)
    IN [n \in DOMAIN idx |-> s[idx[n]]]

-----------------------------------------------------------------------------
(* load_data: what each query returns *)

\* courses of the requested programs, one query per program id, in request order
LoadCourses(program_ids) ==
    Flatten([i \in 1..Len(program_ids) |->
                SelectSeq(db.courses, LAMBDA c : c.program_id = program_ids[i])])

LoadRooms == SelectSeq(db.rooms, LAMBDA r : r.is_available)

\* mutant: the links of every semester and academic year
LoadAssignmentsAnyTerm(sem, yr) ==
    LET rows == db.faculty_assignments
        cids == {rows[i].course_id : i \in DOMAIN rows}
    IN [c \in cids |->
           LET mine == SelectSeq(rows, LAMBDA a : a.course_id = c)
           IN [i \in 1..Len(mine) |-> mine[i].faculty_id]]

\* self.assignments: course_id -> list of faculty ids, from the links of the
\* generator's semester and academic year, in row order
LoadAssignments(sem, yr) ==
    LET rows == SelectSeq(db.faculty_assignments,
                          LAMBDA a : a.semester = sem /\ a.academic_year = yr)
        cids == {rows[i].course_id : i \in DOMAIN rows}
    IN [c \in cids |->
           LET mine == SelectSeq(rows, LAMBDA a : a.course_id = c)
           IN [i \in 1..Len(mine) |-> mine[i].faculty_id]]

-----------------------------------------------------------------------------
(* create_variables *)

TotalHours(course) ==
    course.theory_hours + course.practical_hours + course.tutorial_hours

\* mutant: the number of enrollment records, without the default
StudentCountNoDefault(course) == db.enrollments[course.id]

StudentCount(course) ==
    LET n == db.enrollments[course.id]
    IN IF n # 0 THEN n ELSE DefaultStudents

\* mutant: the capacity check alone
IsRoomSuitableByCapacity(course, room, slot) ==
    room.capacity >= StudentCount(course)

IsRoomSuitable(course, room, slot) ==
    IF room.capacity < StudentCount(course) THEN FALSE
    ELSE IF slot.slot_type = "Practical" /\ room.room_type # "Lab" THEN FALSE
    ELSE IF slot.slot_type = "Theory" /\ room.room_type = "Lab" THEN FALSE
    ELSE TRUE

Var(course, slot, room, faculty_id) ==
    [course_id |-> course.id, slot_id |-> slot.id, room_id |-> room.id,
     faculty_id |-> faculty_id, course |-> course, slot |-> slot, room |-> room]

VarName(v) == <<v.course_id, v.slot_id, v.room_id, v.faculty_id>>

\* a dict keeps one entry per key, at the place of the key's first insertion
Dedup(s) ==
    SubSeqAt(s, {i \in DOMAIN s :
                    \A j \in 1..(i - 1) : VarName(s[j]) # VarName(s[i])})

\* mutant: zero-hour courses are not skipped
SkipNoCourse(course) == FALSE

SkipCourse(course) == TotalHours(course) = 0

\* the (slot, room, faculty) positions the loops reach for the course at position c
CourseVariables(c, g) ==
    LET course == g.courses[c]
    IN IF SkipCourse(course) THEN {}
       ELSE IF course.id \notin DOMAIN g.assignments THEN {}
       ELSE {<<c, i, j, k>> : i \in DOMAIN g.time_slots, j \in DOMAIN g.rooms,
                              k \in DOMAIN g.assignments[course.id]}
              \cap {t \in Nat \X Nat \X Nat \X Nat :
                       IsRoomSuitable(course, g.rooms[t[3]], g.time_slots[t[2]])}

\* the loops nest course, slot, room, faculty: a position <<c, i, j, k>> is
\* reached in the order of the number with these four digits
LoopOrder(t) == ((t[1] * 10 + t[2]) * 10 + t[3]) * 10 + t[4]

\* self.schedule, in insertion order
CreateVariablesOf(g) ==
    LET T == UNION {CourseVariables(c, g) : c \in DOMAIN g.courses}
        order == SetToSeq({LoopOrder(t) : t \in T})
    IN Dedup([n \in 1..Len(order) |->
                 LET c == order[n] \div 1000
                     i == (order[n] \div 100) % 10
                     j == (order[n] \div 10) % 10
                     k == order[n] % 10
                 IN Var(g.courses[c], g.time_slots[i], g.rooms[j],
                        g.assignments[g.courses[c].id][k])])

-----------------------------------------------------------------------------
(* add_constraints: each constraint is sum(vars) op rhs over schedule indices *)

Lin(vs, op, rhs) == [vars |-> vs, op |-> op, rhs |-> rhs]

RequiredHours(course) == TotalHours(course) \div WeeksInTerm

\* mutant: the required hours as an upper bound
CourseHoursAtMost(sch) ==
    LET cids == {sch[i].course_id : i \in DOMAIN sch}
        vs(c) == {i \in DOMAIN sch : sch[i].course_id = c}
        req(c) == RequiredHours(sch[CHOOSE i \in vs(c) : \A j \in vs(c) : j <= i].course)
    IN {Lin(vs(c), "<=", req(c)) : c \in {c \in cids : req(c) > 0}}

CourseHoursConstraint(sch) ==
    LET cids == {sch[i].course_id : i \in DOMAIN sch}
        vs(c) == {i \in DOMAIN sch : sch[i].course_id = c}
        \* required_hours is overwritten by every entry of the course: the last stays
        req(c) == RequiredHours(sch[CHOOSE i \in vs(c) : \A j \in vs(c) : j <= i].course)
    IN {Lin(vs(c), "==", req(c)) : c \in {c \in cids : req(c) > 0}}

\* mutant: the variables grouped by faculty and room instead of faculty and slot
FacultyConflictByRoom(sch) ==
    LET keys == {<<sch[i].faculty_id, sch[i].room_id>> : i \in DOMAIN sch}
        vs(k) == {i \in DOMAIN sch : <<sch[i].faculty_id, sch[i].room_id>> = k}
    IN {Lin(vs(k), "<=", 1) : k \in {k \in keys : Cardinality(vs(k)) > 1}}

FacultyConflictConstraint(sch) ==
    LET keys == {<<sch[i].faculty_id, sch[i].slot_id>> : i \in DOMAIN sch}
        vs(k) == {i \in DOMAIN sch : <<sch[i].faculty_id, sch[i].slot_id>> = k}
    IN {Lin(vs(k), "<=", 1) : k \in {k \in keys : Cardinality(vs(k)) > 1}}

RoomConflictConstraint(sch) ==
    LET keys == {<<sch[i].room_id, sch[i].slot_id>> : i \in DOMAIN sch}
        vs(k) == {i \in DOMAIN sch : <<sch[i].room_id, sch[i].slot_id>> = k}
    IN {Lin(vs(k), "<=", 1) : k \in {k \in keys : Cardinality(vs(k)) > 1}}

\* str(day) for a day of the week
Str(day) ==
    CASE day = 1 -> "1" [] day = 2 -> "2" [] day = 3 -> "3" [] day = 4 -> "4"
      [] day = 5 -> "5" [] day = 6 -> "6" [] day = 7 -> "7" [] OTHER -> "?"

\* day_availability.get('available', True)
GetAvailable(day_availability) ==
    IF "available" \in DOMAIN day_availability THEN day_availability.available
    ELSE TRUE

FacultyBlocked(faculty, v) ==
    LET found == {i \in DOMAIN faculty : faculty[i].id = v.faculty_id}
    IN /\ found # {}
       /\ LET f == faculty[CHOOSE i \in found : \A j \in found : i <= j]
          IN /\ DOMAIN f.availability # {}
             /\ Str(v.slot.day_of_week) \in DOMAIN f.availability
             /\ ~GetAvailable(f.availability[Str(v.slot.day_of_week)])

\* mutant: `available` read from the faculty's availability map itself, not from
\* the map's record for the slot's day
FacultyAvailabilityTopLevel(sch, faculty) ==
    {Lin({i}, "==", 0) :
        i \in {i \in DOMAIN sch :
                  \E f \in DOMAIN faculty :
                      /\ faculty[f].id = sch[i].faculty_id
                      /\ "available" \in DOMAIN faculty[f].availability
                      /\ ~GetAvailable(faculty[f].availability)}}

FacultyAvailabilityConstraint(sch, faculty) ==
    {Lin({i}, "==", 0) : i \in {i \in DOMAIN sch : FacultyBlocked(faculty, sch[i])}}

\* mutant: a hard constraint record forbids the first variable
ApplyHardConstraintForbids(constraint) == {Lin({1}, "==", 0)}

\* _apply_hard_constraint is `pass`: a hard constraint record adds nothing
ApplyHardConstraint(constraint) == {}

CustomConstraints(constraints) ==
    UNION {IF constraints[i].is_hard_constraint
           THEN ApplyHardConstraint(constraints[i]) ELSE {} : i \in DOMAIN constraints}

MaxSessionsPerDay == 2

\* mutant: no cap on the sessions of a course on a day
DistributionUncapped(sch) == {}

DistributionConstraint(sch) ==
    LET keys == {<<sch[i].course_id, sch[i].slot.day_of_week>> : i \in DOMAIN sch}
        vs(k) == {i \in DOMAIN sch :
                     <<sch[i].course_id, sch[i].slot.day_of_week>> = k}
    IN {Lin(vs(k), "<=", MaxSessionsPerDay) :
           k \in {k \in keys : Cardinality(vs(k)) > 2}}

\* list.sort(key = start_time) of the indices in S: stable, ties keep schedule order
SortByStart(sch, S) ==
    LET before(a, b) ==
            \/ sch[a].slot.start_time < sch[b].slot.start_time
            \/ sch[a].slot.start_time = sch[b].slot.start_time /\ a < b
        rank(a) == Cardinality({b \in S : before(b, a)})
    IN [n \in 1..Cardinality(S) |-> CHOOSE a \in S : rank(a) = n - 1]

ConsecutiveHoursConstraint(sch) ==
    LET keys == {<<sch[i].course_id, sch[i].slot.day_of_week>> : i \in DOMAIN sch}
        slots(k) == SortByStart(sch, {i \in DOMAIN sch :
                        <<sch[i].course_id, sch[i].slot.day_of_week>> = k})
    IN UNION {{Lin({slots(k)[i], slots(k)[i + 1], slots(k)[i + 2]}, "<=", 2) :
                  i \in 1..(Len(slots(k)) - 2)} : k \in keys}

AddConstraintsOf(g) ==
    CourseHoursConstraint(g.schedule)
      \cup FacultyConflictConstraint(g.schedule)
      \cup RoomConflictConstraint(g.schedule)
      \cup FacultyAvailabilityConstraint(g.schedule, g.faculty)
      \cup CustomConstraints(g.constraints)
      \cup DistributionConstraint(g.schedule)
      \cup ConsecutiveHoursConstraint(g.schedule)

-----------------------------------------------------------------------------
(* solve *)

\* the assignment asg (the set of variables with value 1) satisfies the model
Satisfies(model, asg) ==
    \A k \in model :
        LET n == Cardinality(k.vars \cap asg)
        IN IF k.op = "==" THEN n = k.rhs ELSE n <= k.rhs

Assignments(g) == {asg \in SUBSET DOMAIN g.schedule : Satisfies(g.model, asg)}

Entry(v, g) ==
    [course_id |-> v.course_id, faculty_id |-> v.faculty_id, room_id |-> v.room_id,
     time_slot_id |-> v.slot_id, semester |-> g.semester,
     academic_year |-> g.academic_year,
     course |-> v.course, slot |-> v.slot, room |-> v.room]

\* one entry per variable with value 1, in schedule order
ExtractSolution(g, asg) ==
    LET chosen == SubSeqAt(g.schedule, asg)
    IN [i \in 1..Len(chosen) |-> Entry(chosen[i], g)]


-----------------------------------------------------------------------------
(* Python values *)

\* solve returns None or a list of entries
None == [is_none |-> TRUE, entries |-> <<>>]
List(entries) == [is_none |-> FALSE, entries |-> entries]

\* `if solution:` is false for None and for the empty list
Truthy(sol) == ~sol.is_none /\ sol.entries # <<>>

NotReturned ==
    [returned |-> FALSE, success |-> FALSE, solution |-> None, message |-> ""]

Returned(success, sol, message) ==
    [returned |-> TRUE, success |-> success, solution |-> sol, message |-> message]

-----------------------------------------------------------------------------
(* The timetable_entries table *)

KeyOf(row) == <<row.semester, row.academic_year>>

\* mutant: the delete filtered by semester alone
DeleteMatchesSemester(row, sem, yr) == row.semester = sem

\* mutant: the two filter values swapped
DeleteMatchesSwapped(row, sem, yr) == row.semester = yr /\ row.academic_year = sem

\* delete().eq('semester', sem).eq('academic_year', yr)
DeleteMatches(row, sem, yr) == row.semester = sem /\ row.academic_year = yr

DeleteWhere(table, sem, yr) ==
    LET keep == {r \in DOMAIN table : ~DeleteMatches(r, sem, yr)}
    IN [r \in keep |-> table[r]]

\* the row save_to_database builds from a solution entry
InsertData(entry) ==
    Row(entry.course_id, entry.faculty_id, entry.room_id, entry.time_slot_id,
        entry.semester, entry.academic_year)

Insert(table, row) == table (+) SetToBag({row})

\* the rows stored under a key, as a bag
Stored(sem, yr) ==
    LET mine == {r \in DOMAIN timetable_entries : KeyOf(r) = <<sem, yr>>}
    IN [r \in mine |-> timetable_entries[r]]

RECURSIVE BagOfSeq(_)
BagOfSeq(rows) ==
    IF rows = <<>> THEN EmptyBag
    ELSE SetToBag({Head(rows)}) (+) BagOfSeq(Tail(rows))

\* the rows a solution publishes, as a bag
RowsOf(sol) == BagOfSeq([i \in 1..Len(sol.entries) |-> InsertData(sol.entries[i])])


-----------------------------------------------------------------------------
(* The stored data the model starts from *)

\* theory, practical and tutorial hours: totals 0, 10 and 15 * k
HourProfiles ==
    {<<0, 0, 0>>, <<5, 5, 0>>} \cup {<<10 * k - 1, 5 * k, 1>> : k \in 1..MaxWeekly}

LinkChoices == {<<>>, <<"f1">>, <<"f1", "f2">>}

Room2Choices ==
    {Room("r2", 40, "Seminar Hall", TRUE), Room("r2", 40, "Lab", FALSE),
     Room("r2", 20, "Classroom", TRUE)}

Slot2Choices ==
    {Slot("s2", 1, 2, "Theory"), Slot("s2", 2, 1, "Tutorial"),
     Slot("s2", 1, 1, "Theory")}

AvailabilityChoices == {<<>>, ("1" :> [available |-> FALSE])}

\* the keys generate is called with; links and rows are stored under more keys
GenKeys == {<<"Fall", "2024-25">>, <<"Spring", "2024-25">>}
AllKeys == Semesters \X Years

Requests == {<<"p1">>, <<"p1", "p2">>}

Catalog(h1, links1, r1type, room2, s1type, slot2, enrolled1, avail1) ==
    [courses |-> <<Course("c1", "p1", h1[1], h1[2], h1[3]),
                   Course("c2", "p2", 10, 5, 0),
                   Course("c3", "p3", 10, 5, 0)>>,
     faculty |-> <<Faculty("f1", avail1),
                   Faculty("f2", ("1" :> [available |-> TRUE]
                                    @@ "2" :> [preferred |-> FALSE]))>>,
     rooms |-> <<Room("r1", 40, r1type, TRUE), room2>>,
     time_slots |-> <<Slot("s1", 1, 1, s1type), slot2>>,
     constraints |-> <<Constraint("k1", TRUE), Constraint("k2", FALSE)>>,
     faculty_assignments |->
         [i \in 1..Len(links1) |-> Link("c1", links1[i], "Fall", "2024-25")]
           \o <<Link("c2", "f1", "Fall", "2024-25"),
                Link("c3", "f1", "Fall", "2024-25"),
                Link("c1", "f2", "Fall", "2025-26"),
                Link("c2", "f2", "Spring", "2024-25")>>,
     enrollments |-> [c \in {"c1", "c2", "c3"} |-> IF c = "c1" THEN enrolled1 ELSE 0]]

Catalogs ==
    {Catalog(h1, links1, r1type, room2, s1type, slot2, enrolled1, avail1) :
        h1 \in HourProfiles, links1 \in LinkChoices, r1type \in {"Classroom", "Lab"},
        room2 \in Room2Choices, s1type \in {"Theory", "Practical"},
        slot2 \in Slot2Choices, enrolled1 \in {0, 15},
        avail1 \in AvailabilityChoices}

\* an earlier generation: MaxPrior copies of one row under every key
PriorRow(key) == Row("c1", "f1", "r1", "s1", key[1], key[2])
PriorEntries == [r \in {PriorRow(k) : k \in AllKeys} |-> MaxPrior]

-----------------------------------------------------------------------------
(* The generator object *)

\* __init__
NewGenerator(sem, yr) ==
    [semester |-> sem, academic_year |-> yr,
     courses |-> <<>>, faculty |-> <<>>, rooms |-> <<>>, time_slots |-> <<>>,
     constraints |-> <<>>, assignments |-> <<>>,
     schedule |-> <<>>, model |-> {}, status |-> "UNSOLVED"]

\* the object after load_data
Loaded(g, program_ids) ==
    [g EXCEPT !.courses = g.courses \o LoadCourses(program_ids),
              !.faculty = db.faculty,
              !.rooms = LoadRooms,
              !.time_slots = db.time_slots,
              !.constraints = db.constraints,
              !.assignments = LoadAssignments(g.semester, g.academic_year)]

\* the problem the call would build has at most MaxVars variables
WithinBound(sem, yr, program_ids) ==
    \E g \in {Loaded(NewGenerator(sem, yr), program_ids)} :
        Cardinality(UNION {CourseVariables(c, g) : c \in DOMAIN g.courses}) <= MaxVars

NotSaved == [inserted |-> 0, returned |-> "pending"]

\* no compliance report asked for
NoReport == [subjects |-> <<>>, semester |-> 0, compliance |-> None, curriculum |-> None]

\* no heuristic run
NoRun ==
    [pc |-> "off", fn |-> "", subjects |-> <<>>, teachers |-> <<>>,
     classrooms |-> <<>>, time_slots |-> <<>>, subject_pool |-> <<>>,
     daily_subject_usage |-> <<>>, day |-> 0, selected_periods |-> <<>>,
     period_idx |-> 0, schedule |-> <<>>, error |-> ""]

InitCalls(active) ==
    /\ nep = NoRun
    /\ report = NoReport
    /\ timetable_entries = PriorEntries
    /\ pc = [g \in Gens |-> IF g \in active THEN "idle" ELSE "off"]
    /\ self = [g \in Gens |-> NewGenerator("", "")]
    /\ args = [g \in Gens |-> [program_ids |-> <<>>, respect_constraints |-> TRUE]]
    /\ solution = [g \in Gens |-> None]
    /\ saved = [g \in Gens |-> NotSaved]
    /\ result = [g \in Gens |-> NotReturned]

\* one generate call over any of the catalogs
Init ==
    /\ db \in Catalogs
    /\ InitCalls({"g1"})

-----------------------------------------------------------------------------
(* generate, step by step *)

ErrorMessage(e) == <<"Error generating timetable: ", e>>

\* a request arrives: the object is constructed and generate is called
Generate(g) ==
    /\ pc[g] = "idle"
    /\ \E key \in GenKeys, program_ids \in Requests, respect \in BOOLEAN :
          /\ WithinBound(key[1], key[2], program_ids)
          /\ self' = [self EXCEPT ![g] = NewGenerator(key[1], key[2])]
          /\ args' = [args EXCEPT ![g] = [program_ids |-> program_ids,
                                           respect_constraints |-> respect]]
    /\ pc' = [pc EXCEPT ![g] = "load_data"]
    /\ UNCHANGED <<report, nep, db, timetable_entries, solution, saved, result>>

LoadData(g) ==
    /\ pc[g] = "load_data"
    /\ self' = [self EXCEPT ![g] = Loaded(self[g], args[g].program_ids)]
    /\ pc' = [pc EXCEPT ![g] = "create_variables"]
    /\ UNCHANGED <<report, nep, db, timetable_entries, args, solution, saved, result>>

\* a query of load_data raises: load_data re-raises, generate's except returns
LoadDataFails(g) ==
    /\ pc[g] = "load_data"
    /\ result' = [result EXCEPT ![g] =
                     Returned(FALSE, None, ErrorMessage("Error loading data: db"))]
    /\ pc' = [pc EXCEPT ![g] = "done"]
    /\ UNCHANGED <<report, nep, db, timetable_entries, self, args, solution, saved>>

CreateVariables(g) ==
    /\ pc[g] = "create_variables"
    /\ self' = [self EXCEPT ![g].schedule = CreateVariablesOf(self[g])]
    /\ pc' = [pc EXCEPT ![g] = IF args[g].respect_constraints
                                THEN "add_constraints" ELSE "solve"]
    /\ UNCHANGED <<report, nep, db, timetable_entries, args, solution, saved, result>>

\* the enrollments query of _is_room_suitable raises: generate's except returns
CreateVariablesFails(g) ==
    /\ pc[g] = "create_variables"
    /\ result' = [result EXCEPT ![g] = Returned(FALSE, None, ErrorMessage("db"))]
    /\ pc' = [pc EXCEPT ![g] = "done"]
    /\ UNCHANGED <<report, nep, db, timetable_entries, self, args, solution, saved>>

AddConstraints(g) ==
    /\ pc[g] = "add_constraints"
    /\ self' = [self EXCEPT ![g].model = AddConstraintsOf(self[g])]
    /\ pc' = [pc EXCEPT ![g] = "solve"]
    /\ UNCHANGED <<report, nep, db, timetable_entries, args, solution, saved, result>>

\* generate's `if solution:` after solve returned sol
AfterSolve(sol) == IF Truthy(sol) THEN "save_delete" ELSE "return_failure"

\* status OPTIMAL or FEASIBLE: solve returns _extract_solution()
SolveFound(g) ==
    /\ pc[g] = "solve"
    /\ \E asg \in Assignments(self[g]) :
          LET sol == List(ExtractSolution(self[g], asg))
          IN /\ solution' = [solution EXCEPT ![g] = sol]
             /\ pc' = [pc EXCEPT ![g] = AfterSolve(sol)]
    /\ self' = [self EXCEPT ![g].status = "OPTIMAL"]
    /\ UNCHANGED <<report, nep, db, timetable_entries, args, saved, result>>

\* status INFEASIBLE: solve returns None
SolveInfeasible(g) ==
    /\ pc[g] = "solve"
    /\ Assignments(self[g]) = {}
    /\ self' = [self EXCEPT ![g].status = "INFEASIBLE"]
    /\ solution' = [solution EXCEPT ![g] = None]
    /\ pc' = [pc EXCEPT ![g] = AfterSolve(None)]
    /\ UNCHANGED <<report, nep, db, timetable_entries, args, saved, result>>

\* status UNKNOWN, the time limit passed without an answer: solve returns None
SolveTimeout(g) ==
    /\ pc[g] = "solve"
    /\ self' = [self EXCEPT ![g].status = "UNKNOWN"]
    /\ solution' = [solution EXCEPT ![g] = None]
    /\ pc' = [pc EXCEPT ![g] = AfterSolve(None)]
    /\ UNCHANGED <<report, nep, db, timetable_entries, args, saved, result>>

\* save_to_database: the delete of the key's rows
SaveDelete(g) ==
    /\ pc[g] = "save_delete"
    /\ timetable_entries' =
           DeleteWhere(timetable_entries, self[g].semester, self[g].academic_year)
    /\ pc' = [pc EXCEPT ![g] = "save_insert"]
    /\ UNCHANGED <<report, nep, db, self, args, solution, saved, result>>

\* the delete raises: save_to_database prints and returns False
SaveDeleteFails(g) ==
    /\ pc[g] = "save_delete"
    /\ saved' = [saved EXCEPT ![g].returned = "False"]
    /\ pc' = [pc EXCEPT ![g] = "return_success"]
    /\ UNCHANGED <<report, nep, db, timetable_entries, self, args, solution, result>>

\* one pass of the insert loop
SaveInsert(g) ==
    /\ pc[g] = "save_insert"
    /\ saved[g].inserted < Len(solution[g].entries)
    /\ timetable_entries' =
           Insert(timetable_entries,
                  InsertData(solution[g].entries[saved[g].inserted + 1]))
    /\ saved' = [saved EXCEPT ![g].inserted = @ + 1]
    /\ UNCHANGED <<report, nep, db, pc, self, args, solution, result>>

\* an insert raises: save_to_database prints and returns False
SaveInsertFails(g) ==
    /\ pc[g] = "save_insert"
    /\ saved[g].inserted < Len(solution[g].entries)
    /\ saved' = [saved EXCEPT ![g].returned = "False"]
    /\ pc' = [pc EXCEPT ![g] = "return_success"]
    /\ UNCHANGED <<report, nep, db, timetable_entries, self, args, solution, result>>

\* the loop is over: save_to_database returns True
SaveDone(g) ==
    /\ pc[g] = "save_insert"
    /\ saved[g].inserted = Len(solution[g].entries)
    /\ saved' = [saved EXCEPT ![g].returned = "True"]
    /\ pc' = [pc EXCEPT ![g] = "return_success"]
    /\ UNCHANGED <<report, nep, db, timetable_entries, self, args, solution, result>>

\* what generate returns after save_to_database returned save_returned
SuccessResult(sol, save_returned) ==
    Returned(TRUE, sol, "Timetable generated successfully")

\* mutant: the failure carries the empty list
FailureResultEmptyList ==
    Returned(FALSE, List(<<>>), "Could not find a feasible solution")

FailureResult == Returned(FALSE, None, "Could not find a feasible solution")

\* generate returns after save_to_database, whose return value it drops
ReturnSuccess(g) ==
    /\ pc[g] = "return_success"
    /\ result' = [result EXCEPT ![g] = SuccessResult(solution[g], saved[g].returned)]
    /\ pc' = [pc EXCEPT ![g] = "done"]
    /\ UNCHANGED <<report, nep, db, timetable_entries, self, args, solution, saved>>

ReturnFailure(g) ==
    /\ pc[g] = "return_failure"
    /\ result' = [result EXCEPT ![g] = FailureResult]
    /\ pc' = [pc EXCEPT ![g] = "done"]
    /\ UNCHANGED <<report, nep, db, timetable_entries, self, args, solution, saved>>

Step(g) ==
    \/ Generate(g)
    \/ LoadData(g)
    \/ LoadDataFails(g)
    \/ CreateVariables(g)
    \/ CreateVariablesFails(g)
    \/ AddConstraints(g)
    \/ SolveFound(g)
    \/ SolveInfeasible(g)
    \/ SolveTimeout(g)
    \/ SaveDelete(g)
    \/ SaveDeleteFails(g)
    \/ SaveInsert(g)
    \/ SaveInsertFails(g)
    \/ SaveDone(g)
    \/ ReturnSuccess(g)
    \/ ReturnFailure(g)

Next == \E g \in Gens : Step(g)

Spec == Init /\ [][Next]_vars


-----------------------------------------------------------------------------
(* Two generate calls *)

\* one classroom; the second slot is usable (Theory) or not (Practical)
PairCatalogs ==
    {Catalog(<<9, 5, 1>>, <<"f1">>, "Classroom", Room("r2", 40, "Lab", FALSE),
             "Theory", slot2, 0, <<>>) :
        slot2 \in {Slot("s2", 1, 2, "Theory"), Slot("s2", 1, 2, "Practical")}}

InitPair ==
    /\ db \in PairCatalogs
    /\ InitCalls(Gens)

\* no other call is between its first and its last step
Alone(g) == \A h \in Gens \ {g} : pc[h] \in {"idle", "done", "off"}

\* the calls run one after the other
NextSeq ==
    \E g \in Gens :
        \/ Alone(g) /\ Generate(g)
        \/ Alone(g) /\ LoadData(g)
        \/ Alone(g) /\ LoadDataFails(g)
        \/ Alone(g) /\ CreateVariables(g)
        \/ Alone(g) /\ CreateVariablesFails(g)
        \/ Alone(g) /\ AddConstraints(g)
        \/ Alone(g) /\ SolveFound(g)
        \/ Alone(g) /\ SolveInfeasible(g)
        \/ Alone(g) /\ SolveTimeout(g)
        \/ Alone(g) /\ SaveDelete(g)
        \/ Alone(g) /\ SaveDeleteFails(g)
        \/ Alone(g) /\ SaveInsert(g)
        \/ Alone(g) /\ SaveInsertFails(g)
        \/ Alone(g) /\ SaveDone(g)
        \/ Alone(g) /\ ReturnSuccess(g)
        \/ Alone(g) /\ ReturnFailure(g)

SpecSeq == InitPair /\ [][NextSeq]_vars

\* the calls run concurrently: their steps interleave
SpecConc == InitPair /\ [][Next]_vars


-----------------------------------------------------------------------------
(* One course of five weekly sessions *)

SlotIds == <<"s1", "s2", "s3", "s4", "s5", "s6">>

\* course c1 has 75 hours, one faculty member and one room; slot i is on
\* day days[i] and starts at hour i
CapCatalog(days) ==
    [courses |-> <<Course("c1", "p1", 45, 30, 0)>>,
     faculty |-> <<Faculty("f1", <<>>)>>,
     rooms |-> <<Room("r1", 40, "Classroom", TRUE)>>,
     time_slots |-> [i \in 1..Len(days) |-> Slot(SlotIds[i], days[i], i, "Theory")],
     constraints |-> <<Constraint("k1", TRUE)>>,
     faculty_assignments |-> <<Link("c1", "f1", "Fall", "2024-25")>>,
     enrollments |-> [c \in {"c1"} |-> 0]]

\* course c1 of the given hours, linked to the faculty members, with the rooms
\* and with slots that are all on day 1, slot i starting at hour i
DayCatalog(hours, faculty_ids, room_ids, slots) ==
    [courses |-> <<Course("c1", "p1", hours, 0, 0)>>,
     faculty |-> [i \in DOMAIN faculty_ids |-> Faculty(faculty_ids[i], <<>>)],
     rooms |-> [i \in DOMAIN room_ids |-> Room(room_ids[i], 40, "Classroom", TRUE)],
     time_slots |-> [i \in 1..slots |-> Slot(SlotIds[i], 1, i, "Theory")],
     constraints |-> <<>>,
     faculty_assignments |->
         [i \in DOMAIN faculty_ids |-> Link("c1", faculty_ids[i], "Fall", "2024-25")],
     enrollments |-> [c \in {"c1"} |-> 0]]

\* three weekly sessions and four slots; no required session and two faculty
\* members in three slots, or two rooms and two faculty members in one slot
DayCatalogs ==
    {DayCatalog(45, <<"f1">>, <<"r1">>, 4),
     DayCatalog(10, <<"f1", "f2">>, <<"r1">>, 3),
     DayCatalog(10, <<"f1", "f2">>, <<"r1", "r2">>, 1)}

\* the slots all on one day, or spread over three days
CapCatalogs ==
    {CapCatalog(days) :
        days \in {<<1, 1, 1, 1, 1>>, <<1, 1, 1, 1, 1, 1>>, <<1, 1, 2, 2, 3>>}}
      \cup DayCatalogs

InitCap ==
    /\ db \in CapCatalogs
    /\ InitCalls({"g1"})

SpecCap == InitCap /\ [][Next]_vars

-----------------------------------------------------------------------------
(* Text: a Python str is the sequence of its characters *)

UpperLetters ==
    <<"A", "B", "C", "D", "E", "F", "G", "H", "I", "J", "K", "L", "M",
      "N", "O", "P", "Q", "R", "S", "T", "U", "V", "W", "X", "Y", "Z">>

LowerLetters ==
    <<"a", "b", "c", "d", "e", "f", "g", "h", "i", "j", "k", "l", "m",
      "n", "o", "p", "q", "r", "s", "t", "u", "v", "w", "x", "y", "z">>

\* str.lower()
Lower(s) ==
    [i \in DOMAIN s |->
        IF \E k \in DOMAIN UpperLetters : UpperLetters[k] = s[i]
        THEN LowerLetters[CHOOSE k \in DOMAIN UpperLetters : UpperLetters[k] = s[i]]
        ELSE s[i]]

\* str.upper()
Upper(s) ==
    [i \in DOMAIN s |->
        IF \E k \in DOMAIN LowerLetters : LowerLetters[k] = s[i]
        THEN UpperLetters[CHOOSE k \in DOMAIN LowerLetters : LowerLetters[k] = s[i]]
        ELSE s[i]]

\* `sub in s` for two strs
In(sub, s) ==
    \E k \in 0..(Len(s) - Len(sub)) : SubSeq(s, k + 1, k + Len(sub)) = sub

\* s[:n]
Slice(s, n) == SubSeq(s, 1, IF Len(s) < n THEN Len(s) ELSE n)

\* str.split(): the words between the blanks, as a set
Split(s) ==
    {SubSeq(s, t[1], t[2]) :
        t \in {t \in (DOMAIN s) \X (DOMAIN s) :
                  /\ t[1] <= t[2]
                  /\ \A i \in t[1]..t[2] : s[i] # " "
                  /\ t[1] = 1 \/ s[t[1] - 1] = " "
                  /\ t[2] = Len(s) \/ s[t[2] + 1] = " "}}

-----------------------------------------------------------------------------
(* The heuristic generators: records *)

\* a row of subjects; nep_category is a plain tag
Subject(name, code, category, credits, skill) ==
    [name |-> name, code |-> code, nep_category |-> category, credits |-> credits,
     is_skill_based |-> skill]

Teacher(name, department, specialization) ==
    [name |-> name, department |-> department, specialization |-> specialization]

\* a classroom carries `type` (main.py) and `room_type` (nep_2020_generator.py)
Classroom(name, type, room_type, department) ==
    [name |-> name, type |-> type, room_type |-> room_type, department |-> department]

\* a row of time_slots as the heuristic generators read it; Monday is day 0
Period(id, day, start, end) ==
    [id |-> id, day_of_week |-> day, start_time |-> start, end_time |-> end]

\* the outcome of an expression: a value, or the exception it raises
Value(v) == [raises |-> "", value |-> v]
Raises(e) == [raises |-> e, value |-> None]

\* the placeholder for a missing name
TBA == <<"T", "B", "A">>

-----------------------------------------------------------------------------
(* main.py: generate_nep_compliant_schedule and its helpers *)

nep_priority == <<"MAJOR", "AEC", "SEC", "MDC", "MINOR", "VAC", "PROJECT">>

\* nep_priority.index(category) if category in nep_priority else len(nep_priority)
PriorityKey(category) ==
    IF \E k \in DOMAIN nep_priority : nep_priority[k] = category
    THEN (CHOOSE k \in DOMAIN nep_priority : nep_priority[k] = category) - 1
    ELSE Len(nep_priority)

\* sorted(subjects, key = (priority, random.random())): the order among subjects
\* of one priority is random; that of the list stands for it, since the pool
\* built from the result is shuffled and then only drawn from with random.choice
SortedSubjects(subjects) ==
    LET before(a, b) ==
            \/ PriorityKey(subjects[a].nep_category) < PriorityKey(subjects[b].nep_category)
            \/ /\ PriorityKey(subjects[a].nep_category) = PriorityKey(subjects[b].nep_category)
               /\ a < b
        rank(a) == Cardinality({b \in DOMAIN subjects : before(b, a)})
    IN [n \in DOMAIN subjects |->
           subjects[CHOOSE a \in DOMAIN subjects : rank(a) = n - 1]]

\* each subject max(1, credits) times
SubjectPool(subjects) ==
    LET sorted == SortedSubjects(subjects)
    IN Flatten([i \in DOMAIN sorted |->
                   [k \in 1..(IF sorted[i].credits > 1 THEN sorted[i].credits ELSE 1)
                       |-> sorted[i]]])

days == <<"Monday", "Tuesday", "Wednesday", "Thursday", "Friday">>

\* the seven periods, by start and end hour; period 4 is the lunch hour
time_periods ==
    <<<<9, 10>>, <<10, 11>>, <<11, 12>>, <<12, 13>>, <<14, 15>>, <<15, 16>>, <<16, 17>>>>

LunchHour == <<12, 13>>

\* random.randint(4, 6) periods sampled without repetition and sorted; the
\* lunch hour, when sampled, may be removed again
SelectedPeriods ==
    LET samples == {S \in SUBSET DOMAIN time_periods : Cardinality(S) \in 4..6}
        kept == samples \cup
                {S \ {k} : S \in samples,
                           k \in {k \in DOMAIN time_periods : time_periods[k] = LunchHour}}
    IN {SubSeqAt(time_periods, S) : S \in kept}

\* daily_subject_usage[day].get(code, 0)
Usage(usage, code) == IF code \in DOMAIN usage THEN usage[code] ELSE 0

\* the first element of a list among those at the positions hits, or None
FirstWhere(list, hits) ==
    IF hits = {} THEN None
    ELSE list[CHOOSE i \in hits : \A j \in hits : i <= j]

\* mutant: every subject of the pool may be drawn
AvailableSubjectsAll(subject_pool, usage) == subject_pool

\* the subjects that may be drawn: those used less than twice today, or the
\* whole pool when there is none
AvailableSubjects(subject_pool, usage) ==
    LET available_subjects ==
            SelectSeq(subject_pool, LAMBDA x : Usage(usage, x.code) < 2)
    IN IF available_subjects = <<>> THEN subject_pool ELSE available_subjects

\* the teachers whose specialization holds the first two letters of the code or
\* a word of the name, or all teachers when there is none
SuitableTeachers(subject, teachers) ==
    LET suitable_teachers ==
            SelectSeq(teachers, LAMBDA t :
                \/ In(Lower(Slice(subject.code, 2)), Lower(t.specialization))
                \/ \E word \in Split(Lower(subject.name)) :
                       In(word, Lower(t.specialization)))
    IN IF suitable_teachers = <<>> THEN teachers ELSE suitable_teachers

\* mutant: random.choice(list) without the guard
ChoiceUnguarded(list) ==
    IF list # <<>> THEN {Value(x) : x \in Range(list)} ELSE {Raises("IndexError")}

\* random.choice(list) if list else None
ChoiceOrNone(list) ==
    IF list # <<>> THEN {Value(x) : x \in Range(list)} ELSE {Value(None)}

Text_lab == <<"l", "a", "b">>
Text_LAB == <<"L", "A", "B">>
Text_workshop == <<"w", "o", "r", "k", "s", "h", "o", "p">>
Text_manufacturing ==
    <<"m", "a", "n", "u", "f", "a", "c", "t", "u", "r", "i", "n", "g">>
Text_cad == <<"c", "a", "d">>
Text_design == <<"d", "e", "s", "i", "g", "n">>
Text_WORKSHOP == <<"W", "O", "R", "K", "S", "H", "O", "P">>
Text_CAD_LAB == <<"C", "A", "D", "_", "L", "A", "B">>
Text_LECTURE == <<"L", "E", "C", "T", "U", "R", "E">>
Text_SEMINAR == <<"S", "E", "M", "I", "N", "A", "R">>
Text_TUTORIAL == <<"T", "U", "T", "O", "R", "I", "A", "L">>

\* the steps of assign_classroom_by_type, each the first classroom of its kind
assign_classroom_by_type(subject, classrooms) ==
    LET subject_name == Lower(subject.name)
        is_lab == subject.is_skill_based \/ In(Text_lab, subject_name)
        subject_dept ==
            IF Len(subject.code) >= 2 THEN Upper(Slice(subject.code, 2)) ELSE <<>>
        dept_lab == FirstWhere(classrooms, {i \in DOMAIN classrooms :
                        \/ classrooms[i].department = subject_dept
                        \/ /\ In(Text_LAB, classrooms[i].type)
                           /\ In(subject_dept, classrooms[i].name)})
        any_lab == FirstWhere(classrooms, {i \in DOMAIN classrooms :
                       In(Text_LAB, classrooms[i].type)})
        workshop == FirstWhere(classrooms, {i \in DOMAIN classrooms :
                        classrooms[i].type = Text_WORKSHOP})
        cad_lab == FirstWhere(classrooms, {i \in DOMAIN classrooms :
                       classrooms[i].type = Text_CAD_LAB})
        regular == FirstWhere(classrooms, {i \in DOMAIN classrooms :
                       classrooms[i].type \in {Text_LECTURE, Text_SEMINAR, Text_TUTORIAL}})
    IN IF is_lab /\ dept_lab # None THEN dept_lab
       ELSE IF is_lab /\ any_lab # None THEN any_lab
       ELSE IF (In(Text_workshop, subject_name) \/ In(Text_manufacturing, subject_name))
                /\ workshop # None THEN workshop
       ELSE IF (In(Text_cad, subject_name) \/ In(Text_design, subject_name))
                /\ cad_lab # None THEN cad_lab
       ELSE IF regular # None THEN regular
       ELSE IF classrooms # <<>> THEN classrooms[1] ELSE None

\* assign_classroom_by_type, or any classroom when it found none
AssignedClassrooms(subject, classrooms) ==
    IF assign_classroom_by_type(subject, classrooms) # None
    THEN {Value(assign_classroom_by_type(subject, classrooms))}
    ELSE ChoiceOrNone(classrooms)

\* x.get('name', 'TBA') if x else 'TBA'
NameOrTBA(x) == IF x # None THEN x.name ELSE TBA

\* the dict appended to schedule[day]
NepEntry(period, subject, assigned_teacher, assigned_classroom) ==
    [time |-> period,
     subject_name |-> subject.name,
     subject_code |-> subject.code,
     nep_category |-> subject.nep_category,
     credits |-> subject.credits,
     teacher |-> NameOrTBA(assigned_teacher),
     classroom |-> NameOrTBA(assigned_classroom),
     is_skill_based |-> subject.is_skill_based,
     is_lab |-> In(Text_lab, Lower(subject.name))]

-----------------------------------------------------------------------------
(* The arguments of the heuristic runs *)

\* the run is followed through the first MaxDays of the five days
MaxDays == 1

Subject_cs == Subject(<<"C", "S", " ", "L", "a", "b">>, <<"C", "S", "2", "0", "1">>, "MAJOR", 2, TRUE)
Subject_ec == Subject(<<"E", "c", "o", "n", "o", "m", "i", "c", "s">>, <<"E", "C", "1", "0", "1">>, "MINOR", 0, FALSE)
Subject_oe == Subject(<<"O", "p", "e", "n", " ", "D", "e", "s", "i", "g", "n">>, <<"O", "E", "1">>, "OE", 1, FALSE)

SubjectLists ==
    {<<>>, <<Subject_cs>>, <<Subject_ec, Subject_cs>>,
     <<Subject_oe, Subject_ec, Subject_cs>>}

Teacher_cs == Teacher(<<"R", "a", "o">>, <<"C", "S">>, <<"C", "S", " ", "P", "r", "o", "g", "r", "a", "m", "m", "i", "n", "g">>)
Teacher_ec == Teacher(<<"S", "e", "n">>, <<"E", "C", "O">>, <<"E", "c", "o", "n", "o", "m", "i", "c", "s">>)

TeacherLists == {<<>>, <<Teacher_cs>>, <<Teacher_cs, Teacher_ec>>}

Classroom_hall == Classroom(<<"H", "a", "l", "l", " ", "A">>, Text_LECTURE, <<"l", "e", "c", "t", "u", "r", "e">>, <<"G", "E", "N", "E", "R", "A", "L">>)
Classroom_lab == Classroom(<<"C", "S", " ", "L", "a", "b", "-", "1", "0", "1">>, <<"C", "O", "M", "P", "U", "T", "E", "R", "_", "L", "A", "B">>, Text_lab, <<"C", "S">>)

\* a lecture hall that belongs to the CS department
Classroom_cs_hall == Classroom(<<"C", "S", " ", "H", "a", "l", "l">>, Text_LECTURE, <<"l", "e", "c", "t", "u", "r", "e">>, <<"C", "S">>)

ClassroomLists == {<<>>, <<Classroom_hall>>, <<Classroom_hall, Classroom_lab>>}

\* the calls of generate_nep_compliant_schedule: subjects, teachers, classrooms
NepArguments ==
    {<<<<>>, <<Teacher_cs>>, <<Classroom_hall>>>>,
     <<<<Subject_cs>>, <<>>, <<>>>>,
     <<<<Subject_ec, Subject_cs>>, <<Teacher_cs>>, <<Classroom_hall, Classroom_lab>>>>,
     <<<<Subject_oe, Subject_ec, Subject_cs>>, <<>>, <<Classroom_hall, Classroom_lab>>>>,
     <<<<Subject_oe, Subject_ec, Subject_cs>>, <<Teacher_cs, Teacher_ec>>,
       <<Classroom_hall>>>>,
     <<<<Subject_cs>>, <<Teacher_cs>>, <<Classroom_cs_hall, Classroom_lab>>>>}

-----------------------------------------------------------------------------
(* generate_nep_compliant_schedule, step by step *)

\* the call: the pool is built, no day is begun
GenerateNepCompliantSchedule ==
    /\ nep.pc = "idle"
    /\ \E a \in NepArguments :
          nep' = [nep EXCEPT !.pc = "select_periods",
                             !.fn = "generate_nep_compliant_schedule",
                             !.subjects = a[1],
                             !.teachers = a[2],
                             !.classrooms = a[3],
                             !.subject_pool = SubjectPool(a[1]),
                             !.daily_subject_usage = [d \in Range(days) |-> <<>>],
                             !.day = 1]
    /\ UNCHANGED <<report, db, timetable_entries, pc, self, args, solution, saved, result>>

\* a day begins: schedule[day] = [] and the day's periods are drawn
SelectPeriods ==
    /\ nep.pc = "select_periods"
    /\ nep.day <= MaxDays
    /\ \E selected_periods \in SelectedPeriods :
          nep' = [nep EXCEPT !.pc = "place",
                             !.selected_periods = selected_periods,
                             !.period_idx = 1,
                             !.schedule = [d \in DOMAIN nep.schedule \cup {days[nep.day]} |->
                                              IF d = days[nep.day] THEN <<>>
                                              ELSE nep.schedule[d]]]
    /\ UNCHANGED <<report, db, timetable_entries, pc, self, args, solution, saved, result>>

\* the body of the period loop for a subject, teacher and classroom drawn
Placed(subject, assigned_teacher, assigned_classroom) ==
    LET day == days[nep.day]
        usage == nep.daily_subject_usage[day]
        entry == NepEntry(nep.selected_periods[nep.period_idx], subject,
                          assigned_teacher, assigned_classroom)
    IN [nep EXCEPT !.period_idx = @ + 1,
                   !.daily_subject_usage[day] =
                       [c \in DOMAIN usage \cup {subject.code} |->
                           IF c = subject.code THEN Usage(usage, c) + 1 ELSE usage[c]],
                   !.schedule[day] = Append(@, entry)]

\* one pass of the period loop
PlaceSubject ==
    /\ nep.pc = "place"
    /\ nep.period_idx <= Len(nep.selected_periods)
    /\ IF nep.subject_pool = <<>>
       THEN nep' = [nep EXCEPT !.period_idx = @ + 1]
       ELSE \E subject \in Range(AvailableSubjects(nep.subject_pool,
                                   nep.daily_subject_usage[days[nep.day]])) :
            \E t \in ChoiceOrNone(SuitableTeachers(subject, nep.teachers)),
               c \in AssignedClassrooms(subject, nep.classrooms) :
                IF t.raises # "" \/ c.raises # ""
                THEN nep' = [nep EXCEPT !.pc = "raised",
                                        !.error = IF t.raises # "" THEN t.raises
                                                  ELSE c.raises]
                ELSE nep' = Placed(subject, t.value, c.value)
    /\ UNCHANGED <<report, db, timetable_entries, pc, self, args, solution, saved, result>>

\* the period loop is over: the next day
EndDay ==
    /\ nep.pc = "place"
    /\ nep.period_idx > Len(nep.selected_periods)
    /\ nep' = [nep EXCEPT !.pc = "select_periods", !.day = @ + 1]
    /\ UNCHANGED <<report, db, timetable_entries, pc, self, args, solution, saved, result>>

\* return schedule
ReturnSchedule ==
    /\ nep.pc = "select_periods"
    /\ nep.day > MaxDays
    /\ nep' = [nep EXCEPT !.pc = "returned"]
    /\ UNCHANGED <<report, db, timetable_entries, pc, self, args, solution, saved, result>>

-----------------------------------------------------------------------------
(* nep_2020_generator.py: NEP2020TimetableGenerator._create_balanced_schedule *)

priority_order == <<"MAJOR", "AEC", "SEC", "MDC", "MINOR", "VAC", "PROJECT">>

\* priority_order.index(category), which raises for a category not in the list
HasPriority(category) == \E k \in DOMAIN priority_order : priority_order[k] = category
PriorityIndex(category) ==
    (CHOOSE k \in DOMAIN priority_order : priority_order[k] = category) - 1

\* sorted(courses, key = priority index): stable
SortedCourses(courses) ==
    IF \E i \in DOMAIN courses : ~HasPriority(courses[i].nep_category)
    THEN Raises("ValueError")
    ELSE LET before(a, b) ==
                 \/ PriorityIndex(courses[a].nep_category)
                        < PriorityIndex(courses[b].nep_category)
                 \/ /\ PriorityIndex(courses[a].nep_category)
                           = PriorityIndex(courses[b].nep_category)
                    /\ a < b
             rank(a) == Cardinality({b \in DOMAIN courses : before(b, a)})
         IN Value([n \in DOMAIN courses |->
                      courses[CHOOSE a \in DOMAIN courses : rank(a) = n - 1]])

\* the first teacher whose department is in the course name or whose
\* specialization holds the first three letters of the code; else the first
AssignTeacher(course, teachers) ==
    LET match == FirstWhere(teachers, {i \in DOMAIN teachers :
                     \/ In(Lower(teachers[i].department), Lower(course.name))
                     \/ In(Slice(course.code, 3), teachers[i].specialization)})
    IN IF match # None THEN match
       ELSE IF teachers # <<>> THEN teachers[1] ELSE None

Text_practical == <<"p", "r", "a", "c", "t", "i", "c", "a", "l">>
Text_lecture == <<"l", "e", "c", "t", "u", "r", "e">>

AssignClassroom(course, classrooms) ==
    LET course_name == Lower(course.name)
        lab == FirstWhere(classrooms, {i \in DOMAIN classrooms :
                   classrooms[i].room_type = Text_lab})
        lecture == FirstWhere(classrooms, {i \in DOMAIN classrooms :
                       classrooms[i].room_type = Text_lecture})
    IN IF (In(Text_lab, course_name) \/ In(Text_practical, course_name)) /\ lab # None
       THEN lab
       ELSE IF lecture # None THEN lecture
       ELSE IF classrooms # <<>> THEN classrooms[1] ELSE None

\* the dict appended to schedule[day_name]
BalancedEntry(slot, course, teachers, classrooms) ==
    [time_slot |-> <<slot.start_time, slot.end_time>>,
     course |-> course,
     teacher |-> AssignTeacher(course, teachers),
     classroom |-> AssignClassroom(course, classrooms),
     nep_category |-> course.nep_category,
     is_skill_based |-> course.is_skill_based]

\* mutant: one slot per start and end time
DailySlotsDistinct(time_slots, day) ==
    SubSeqAt(time_slots,
             {i \in DOMAIN time_slots :
                 /\ time_slots[i].day_of_week = day
                 /\ \A j \in 1..(i - 1) :
                        time_slots[j].day_of_week = day =>
                            <<time_slots[j].start_time, time_slots[j].end_time>>
                                # <<time_slots[i].start_time, time_slots[i].end_time>>})

\* the slots of day number day, in list order
DailySlots(time_slots, day) == SelectSeq(time_slots, LAMBDA slot : slot.day_of_week = day)

\* the entries of a day: one per slot among the first six, while the position
\* is below the number of courses
DayEntries(sorted_courses, teachers, classrooms, daily_slots) ==
    LET n == IF Len(daily_slots) < 6 THEN Len(daily_slots) ELSE 6
        used == {i \in 1..n : i - 1 < Len(sorted_courses)}
    IN [i \in 1..Cardinality(used) |->
           BalancedEntry(daily_slots[i],
                         sorted_courses[((i - 1) % Len(sorted_courses)) + 1],
                         teachers, classrooms)]

create_balanced_schedule(courses, teachers, classrooms, time_slots) ==
    LET sorted_courses == SortedCourses(courses)
    IN IF sorted_courses.raises # "" THEN sorted_courses
       ELSE Value([day_name \in Range(days) |->
                      LET day == (CHOOSE d \in DOMAIN days : days[d] = day_name) - 1
                      IN DayEntries(sorted_courses.value, teachers, classrooms,
                                    DailySlots(time_slots, day))])

\* time_slots rows: of one institution, and of two institutions with the same
\* Monday hour
PeriodLists ==
    {<<>>,
     <<Period(1, 0, 9, 10), Period(2, 0, 10, 11), Period(3, 1, 9, 10)>>,
     <<Period(1, 0, 9, 10), Period(2, 0, 9, 10), Period(3, 0, 10, 11)>>}

\* one call of _create_balanced_schedule
CreateBalancedSchedule ==
    /\ nep.pc = "idle"
    /\ \E courses \in SubjectLists, teachers \in TeacherLists,
          classrooms \in ClassroomLists, time_slots \in PeriodLists :
          LET out == create_balanced_schedule(courses, teachers, classrooms, time_slots)
          IN nep' = [nep EXCEPT !.pc = IF out.raises # "" THEN "raised" ELSE "returned",
                                !.fn = "_create_balanced_schedule",
                                !.subjects = courses,
                                !.teachers = teachers,
                                !.classrooms = classrooms,
                                !.time_slots = time_slots,
                                !.error = out.raises,
                                !.schedule = IF out.raises # "" THEN <<>> ELSE out.value]
    /\ UNCHANGED <<report, db, timetable_entries, pc, self, args, solution, saved, result>>

-----------------------------------------------------------------------------
(* The heuristic runs as a specification *)

NoTables ==
    [courses |-> <<>>, faculty |-> <<>>, rooms |-> <<>>, time_slots |-> <<>>,
     constraints |-> <<>>, faculty_assignments |-> <<>>, enrollments |-> <<>>]

\* no generate call; one heuristic run is about to be made
InitNep ==
    /\ db = NoTables
    /\ nep = [NoRun EXCEPT !.pc = "idle"]
    /\ report = NoReport
    /\ timetable_entries = EmptyBag
    /\ pc = [g \in Gens |-> "off"]
    /\ self = [g \in Gens |-> NewGenerator("", "")]
    /\ args = [g \in Gens |-> [program_ids |-> <<>>, respect_constraints |-> TRUE]]
    /\ solution = [g \in Gens |-> None]
    /\ saved = [g \in Gens |-> NotSaved]
    /\ result = [g \in Gens |-> NotReturned]

NextNep ==
    \/ GenerateNepCompliantSchedule
    \/ SelectPeriods
    \/ PlaceSubject
    \/ EndDay
    \/ ReturnSchedule
    \/ CreateBalancedSchedule

SpecNep == InitNep /\ [][NextNep]_vars

-----------------------------------------------------------------------------
(* Compliance reports: calculate_nep_compliance of main.py, and
   _calculate_credit_distribution and _check_nep_compliance of
   nep_2020_generator.py *)

\* d.get(key, default)
Get(d, key, default) == IF key \in DOMAIN d THEN d[key] ELSE default

\* the truth of d.get(key) for a key that holds a bool: the None of a missing
\* key is false
GetTruth(d, key) == Get(d, key, FALSE)

\* the locals credit_distribution and total_credits of calculate_nep_compliance
\* after its loop has passed the first n subjects
RECURSIVE CreditLoop(_, _)
CreditLoop(subjects, n) ==
    IF n = 0 THEN [credit_distribution |-> <<>>, total_credits |-> 0]
    ELSE LET before == CreditLoop(subjects, n - 1)
             category == Get(subjects[n], "nep_category", "MAJOR")
             credits == Get(subjects[n], "credits", 0)
         IN [credit_distribution |->
                 [c \in DOMAIN before.credit_distribution \cup {category} |->
                     IF c = category
                     THEN Get(before.credit_distribution, category, 0) + credits
                     ELSE before.credit_distribution[c]],
             total_credits |-> before.total_credits + credits]

\* mutant: the band without its two ends
CompliantStrictly(total_credits) == 18 < total_credits /\ total_credits < 22

\* 18 <= total_credits <= 22
Compliant(total_credits) == 18 <= total_credits /\ total_credits <= 22

\* the recommendations of calculate_nep_compliance, in order
Recommendations(total_credits, has_multidisciplinary, has_skill_component) ==
    <<IF total_credits < 18 THEN "Add more courses - minimum 18 credits required"
      ELSE IF total_credits > 22
      THEN "Consider reducing course load - maximum 22 credits recommended"
      ELSE "Credit load is optimal (18-22 credits)",
      IF ~has_multidisciplinary THEN "Add Multidisciplinary Courses (MDC)"
      ELSE "Multidisciplinary learning component present",
      IF ~has_skill_component THEN "Include Skill Enhancement Courses (SEC)"
      ELSE "Skill-based learning component present">>

calculate_nep_compliance(subjects) ==
    LET loop == CreditLoop(subjects, Len(subjects))
        has_multidisciplinary == Get(loop.credit_distribution, "MDC", 0) > 0
        has_skill_component ==
            \E i \in DOMAIN subjects : Get(subjects[i], "is_skill_based", FALSE)
    IN [total_credits |-> loop.total_credits,
        is_compliant |-> Compliant(loop.total_credits),
        has_multidisciplinary |-> has_multidisciplinary,
        has_skill_component |-> has_skill_component,
        distribution |-> loop.credit_distribution,
        recommendations |-> Recommendations(loop.total_credits, has_multidisciplinary,
                                            has_skill_component)]

\* _calculate_credit_distribution: distribution after the first n subjects
RECURSIVE DistributionLoop(_, _)
DistributionLoop(subjects, n) ==
    IF n = 0 THEN <<>>
    ELSE LET distribution == DistributionLoop(subjects, n - 1)
             category == Get(subjects[n], "nep_category", "MAJOR")
         IN [c \in DOMAIN distribution \cup {category} |->
                IF c = category
                THEN Get(distribution, category, 0) + Get(subjects[n], "credits", 0)
                ELSE distribution[c]]

calculate_credit_distribution(subjects) == DistributionLoop(subjects, Len(subjects))

\* sum(subject.get('credits', 0) for subject in subjects)
RECURSIVE SumOfCredits(_)
SumOfCredits(subjects) ==
    IF subjects = <<>> THEN 0
    ELSE Get(Head(subjects), "credits", 0) + SumOfCredits(Tail(subjects))

check_nep_compliance(subjects, semester) ==
    LET total_credits == SumOfCredits(subjects)
        compliance ==
            [total_credits |-> total_credits,
             recommended_credits_per_semester |-> 20,
             is_compliant |-> total_credits >= 18 /\ total_credits <= 22,
             has_multidisciplinary |->
                 \E i \in DOMAIN subjects :
                     Get(subjects[i], "nep_category", "") = "MDC",
             has_skill_component |->
                 \E i \in DOMAIN subjects :
                     GetTruth(subjects[i], "is_skill_based"),
             semester |-> semester]
    IN IF semester >= 7
       THEN compliance @@
            [has_research_component |->
                \E i \in DOMAIN subjects :
                    GetTruth(subjects[i], "is_research_component")]
       ELSE compliance

\* the curriculum dict of get_nep_compliant_curriculum for the subjects queried
get_nep_compliant_curriculum(subjects, semester) ==
    [semester |-> semester,
     courses |-> subjects,
     credit_distribution |-> calculate_credit_distribution(subjects),
     nep_compliance |-> check_nep_compliance(subjects, semester)]

\* subjects of four to nine credits, one of them a project
Subject_ds == Subject(<<"D", "S">>, <<"C", "S", "3", "0", "1">>, "MAJOR", 8, TRUE)
Subject_ma == Subject(<<"M", "a", "t", "h", "s">>, <<"M", "A", "1", "0", "1">>, "MINOR", 9, FALSE)
Subject_psy == Subject(<<"P", "s", "y", "c", "h", "o", "l", "o", "g", "y">>, <<"P", "S", "Y", "1", "0", "1">>, "MDC", 5, FALSE)
Subject_res ==
    Subject(<<"R", "e", "s", "e", "a", "r", "c", "h">>, <<"R", "E", "S", "4", "0", "1">>, "PROJECT", 4, FALSE)
      @@ [is_research_component |-> TRUE]

\* a multidisciplinary subject that carries no credit
Subject_yoga == Subject(<<"Y", "o", "g", "a">>, <<"Y", "G", "1", "0", "1">>, "MDC", 0, FALSE)

\* a row of the subjects table, which has no category and no skill column
Subject_row == [name |-> <<"A", "r", "t">>, code |-> <<"A", "R", "1">>, credits |-> 1]

ReportSubjects ==
    {Subject_ds, Subject_ma, Subject_psy, Subject_res, Subject_yoga, Subject_row}

\* at most this many subjects in a reported list
MaxSubjects == 3

ReportLists == UNION {[1..n -> ReportSubjects] : n \in 0..MaxSubjects}

\* semesters before and in the final year
ReportSemesters == {1, 7}

\* the endpoint computes the report of its subjects
CalculateNepCompliance ==
    /\ report.compliance = None
    /\ report' = [report EXCEPT !.compliance = calculate_nep_compliance(report.subjects)]
    /\ UNCHANGED <<nep, db, timetable_entries, pc, self, args, solution, saved, result>>

\* the generator class computes the curriculum of the same subjects
GetNepCompliantCurriculum ==
    /\ report.curriculum = None
    /\ report' = [report EXCEPT !.curriculum =
                     get_nep_compliant_curriculum(report.subjects, report.semester)]
    /\ UNCHANGED <<nep, db, timetable_entries, pc, self, args, solution, saved, result>>

\* a list of subjects and a semester, reported on by both implementations
InitReport ==
    /\ db = NoTables
    /\ nep = NoRun
    /\ report \in {[NoReport EXCEPT !.subjects = subjects, !.semester = semester] :
                     subjects \in ReportLists, semester \in ReportSemesters}
    /\ timetable_entries = EmptyBag
    /\ pc = [g \in Gens |-> "off"]
    /\ self = [g \in Gens |-> NewGenerator("", "")]
    /\ args = [g \in Gens |-> [program_ids |-> <<>>, respect_constraints |-> TRUE]]
    /\ solution = [g \in Gens |-> None]
    /\ saved = [g \in Gens |-> NotSaved]
    /\ result = [g \in Gens |-> NotReturned]

NextReport ==
    \/ CalculateNepCompliance
    \/ GetNepCompliantCurriculum

SpecReport == InitReport /\ [][NextReport]_vars

-----------------------------------------------------------------------------
(* Properties of solutions, stated over their entries *)

\* no two entries share (faculty, slot) or (room, slot)
NoDoubleBooking(es) ==
    \A i, j \in DOMAIN es :
        i # j =>
            /\ <<es[i].faculty_id, es[i].time_slot_id>>
                   # <<es[j].faculty_id, es[j].time_slot_id>>
            /\ <<es[i].room_id, es[i].time_slot_id>>
                   # <<es[j].room_id, es[j].time_slot_id>>

EntriesOf(es, course_id) == Cardinality({i \in DOMAIN es : es[i].course_id = course_id})

HasVariable(g, course_id) ==
    \E i \in DOMAIN self[g].schedule : self[g].schedule[i].course_id = course_id

LoadedCourses(g) == Range(self[g].courses)

\* every loaded course that needs sessions has exactly that many entries
FullCoverage(g, es) ==
    \A course \in LoadedCourses(g) :
        RequiredHours(course) > 0 => EntriesOf(es, course.id) = RequiredHours(course)

\* the same for the courses that have a variable; the others have no entry
CandidateCoverage(g, es) ==
    \A course \in LoadedCourses(g) :
        RequiredHours(course) > 0 =>
            EntriesOf(es, course.id) =
                (IF HasVariable(g, course.id) THEN RequiredHours(course) ELSE 0)

\* no entry uses a faculty member on a day marked unavailable
RespectsAvailability(g, es) ==
    \A i \in DOMAIN es :
        ~FacultyBlocked(self[g].faculty,
                        [faculty_id |-> es[i].faculty_id, slot |-> es[i].slot])

HardConstraintsHold(g, es) ==
    /\ CandidateCoverage(g, es)
    /\ NoDoubleBooking(es)
    /\ RespectsAvailability(g, es)

\* solve has returned a list to generate
SolveReturned(g) == self[g].status = "OPTIMAL" /\ ~solution[g].is_none

-----------------------------------------------------------------------------
(* C1: every solution solve returns after create_variables and add_constraints
   has no two entries with the same (faculty_id, time_slot_id) and no two with
   the same (room_id, time_slot_id). *)
C1_NoDoubleBooking ==
    \A g \in Gens :
        (args[g].respect_constraints /\ SolveReturned(g)) =>
            NoDoubleBooking(solution[g].entries)

\* a constrained solution with two entries in the same slot
C1_Witness ==
    \E g \in Gens :
        /\ args[g].respect_constraints
        /\ SolveReturned(g)
        /\ \E i, j \in DOMAIN solution[g].entries :
              /\ i # j
              /\ solution[g].entries[i].time_slot_id = solution[g].entries[j].time_slot_id

(* C2 as claimed: every loaded course with required_sessions > 0 has exactly
   required_sessions entries in every solution exact-mode generate returns,
   also a course without a faculty link or without a suitable (room, slot). *)
C2_AsClaimed ==
    \A g \in Gens :
        (result[g].success /\ args[g].respect_constraints) =>
            FullCoverage(g, result[g].solution.entries)

(* C2: with constraints enforced, every loaded course with required_sessions > 0
   that has at least one decision variable has exactly required_sessions entries
   in every solution generate returns; a course without a variable has none. *)
C2_CandidateCoverage ==
    \A g \in Gens :
        (result[g].success /\ args[g].respect_constraints) =>
            CandidateCoverage(g, result[g].solution.entries)

\* a returned constrained solution with a course of two weekly sessions
C2_Witness ==
    \E g \in Gens :
        /\ result[g].success
        /\ args[g].respect_constraints
        /\ \E course \in LoadedCourses(g) :
              /\ RequiredHours(course) >= 2
              /\ EntriesOf(result[g].solution.entries, course.id) = RequiredHours(course)

\* generate has handed the solution to save_to_database or returned it
Published(g) ==
    Truthy(solution[g]) /\ pc[g] \in {"save_delete", "save_insert", "return_success", "done"}

(* C3 as claimed: generate never returns or publishes a solution that violates a
   hard constraint, for either value of respect_constraints. *)
C3_AsClaimed ==
    \A g \in Gens : Published(g) => HardConstraintsHold(g, solution[g].entries)

(* C3: with respect_constraints = True generate never returns or publishes a
   solution that violates coverage of the courses that have variables, faculty
   exclusivity, room exclusivity or faculty availability. *)
C3_HardConstraints ==
    \A g \in Gens :
        (Published(g) /\ args[g].respect_constraints) =>
            HardConstraintsHold(g, solution[g].entries)

\* a constrained solution is published although a linked faculty member is
\* unavailable on the day of one of the course's candidate slots
C3_Witness ==
    \E g \in Gens :
        /\ Published(g)
        /\ args[g].respect_constraints
        /\ result[g].success
        /\ \E i \in DOMAIN self[g].schedule :
              FacultyBlocked(self[g].faculty, self[g].schedule[i])

(* C4: a course whose theory, practical and tutorial hours sum to 0 gets no
   decision variable and appears in no entry of any solution, whatever the
   respect_constraints flag is. *)
C4_ZeroHoursExcluded ==
    \A g \in Gens :
        /\ \A i \in DOMAIN self[g].schedule :
              TotalHours(self[g].schedule[i].course) # 0
        /\ \A i \in DOMAIN solution[g].entries :
              TotalHours(solution[g].entries[i].course) # 0

\* an unconstrained, non-empty solution of a call that loaded a zero-hour
\* course with a faculty link
C4_Witness ==
    \E g \in Gens :
        /\ ~args[g].respect_constraints
        /\ Truthy(solution[g])
        /\ \E course \in LoadedCourses(g) :
              TotalHours(course) = 0 /\ course.id \in DOMAIN self[g].assignments

(* C5: no entry of a solution pairs a Practical slot with a room that is not a
   Lab, or a Theory slot with a Lab, with or without constraint enforcement. *)
C5_RoomTypeMatchesSlot ==
    \A g \in Gens :
        \A i \in DOMAIN solution[g].entries :
            LET e == solution[g].entries[i]
            IN /\ e.slot.slot_type = "Practical" => e.room.room_type = "Lab"
               /\ e.slot.slot_type = "Theory" => e.room.room_type # "Lab"

\* an unconstrained solution that uses a Lab, of a problem with a Theory slot
C5_Witness ==
    \E g \in Gens :
        /\ ~args[g].respect_constraints
        /\ \E i \in DOMAIN solution[g].entries :
              solution[g].entries[i].room.room_type = "Lab"
        /\ \E i \in DOMAIN self[g].time_slots :
              self[g].time_slots[i].slot_type = "Theory"


-----------------------------------------------------------------------------
(* Publishing *)

KeyOfCall(g) == <<self[g].semester, self[g].academic_year>>

StoredFor(g) == Stored(self[g].semester, self[g].academic_year)

\* the generation stored under the call's key before any call ran
PriorFor(g) ==
    LET mine == {r \in DOMAIN PriorEntries : KeyOf(r) = KeyOfCall(g)}
    IN [r \in mine |-> PriorEntries[r]]

SaveReturned(g, value) == saved[g].returned = value

(* C6: once save_to_database has completed without error, the entries stored
   under its key are exactly the entries of the solution just published; a
   second publish for the same key after a first leaves the second run's
   entries, not both runs'. *)
C6_FullReplace ==
    \A g \in Gens :
        (pc[g] = "return_success" /\ SaveReturned(g, "True")) =>
            /\ StoredFor(g) = RowsOf(solution[g])
            /\ BagCardinality(StoredFor(g)) = Len(solution[g].entries)

\* the second of two publishes for one key has just completed, with entries
\* that differ from the first's
C6_Witness ==
    \E g, h \in Gens :
        /\ g # h
        /\ pc[h] = "done" /\ SaveReturned(h, "True")
        /\ pc[g] = "return_success" /\ SaveReturned(g, "True")
        /\ KeyOfCall(g) = KeyOfCall(h)
        /\ RowsOf(solution[g]) # RowsOf(solution[h])
        /\ Len(solution[h].entries) >= 2

(* C7 as claimed: when two generate calls for the same key run concurrently and
   their delete and insert steps interleave, the entries stored under the key
   once both have finished are exactly the entries of one of the two solutions. *)
C7_AsClaimed ==
    \A g, h \in Gens :
        (/\ g # h
         /\ pc[g] = "done" /\ SaveReturned(g, "True")
         /\ pc[h] = "done" /\ SaveReturned(h, "True")
         /\ KeyOfCall(g) = KeyOfCall(h)) =>
            \/ StoredFor(g) = RowsOf(solution[g])
            \/ StoredFor(g) = RowsOf(solution[h])

(* C8 as claimed: if a step of save_to_database fails, the entries stored under
   the key are the complete prior generation or the complete new one, never an
   empty or partly inserted set. *)
C8_AsClaimed ==
    \A g \in Gens :
        SaveReturned(g, "False") =>
            \/ StoredFor(g) = PriorFor(g)
            \/ StoredFor(g) = RowsOf(solution[g])

(* C9 as claimed: when save_to_database returns False, generate does not return
   a result with success = True. *)
C9_AsClaimed ==
    \A g \in Gens :
        (result[g].returned /\ SaveReturned(g, "False")) => ~result[g].success

\* the call built no variable and the solver solved the empty model
EmptyCandidateSet(g) ==
    /\ result[g].returned
    /\ self[g].status = "OPTIMAL"
    /\ self[g].schedule = <<>>

\* the solver proved the call's model infeasible
ProvedInfeasible(g) ==
    /\ result[g].returned
    /\ self[g].status = "INFEASIBLE"

(* C10 as claimed: the failure generate returns when the variable set is empty
   is distinguishable from the failure it returns for a problem the solver
   proved infeasible. *)
C10_AsClaimed ==
    \A g, h \in Gens :
        (EmptyCandidateSet(g) /\ ProvedInfeasible(h)) => result[g] # result[h]

-----------------------------------------------------------------------------
(* Failures of generate *)

\* the solver gave up at the time limit
TimedOut(g) ==
    /\ result[g].returned
    /\ self[g].status = "UNKNOWN"

(* C11 as claimed: a solver run that exhausts its time budget produces a failure
   distinguishable from the one produced when the solver proves infeasibility:
   the value solve returns and the result generate returns differ. *)
C11_AsClaimed ==
    \A g, h \in Gens :
        (TimedOut(g) /\ ProvedInfeasible(h)) =>
            /\ solution[g] # solution[h]
            /\ result[g] # result[h]

EndedInFailure(g) == result[g].returned /\ ~result[g].success

(* C12: whenever generate ends in failure before publishing (a data-load error,
   an infeasible model or a timeout), save_to_database was never invoked, the
   returned solution is None and the rows of timetable_entries under every key
   are the rows stored before the call. *)
C12_FailureFrame ==
    \A g \in Gens :
        EndedInFailure(g) =>
            /\ saved[g] = NotSaved
            /\ result[g].solution = None
            /\ timetable_entries = PriorEntries

\* generate returned the failure of an infeasible model, with rows stored
\* under the call's key
C12_Witness ==
    \E g \in Gens :
        /\ EndedInFailure(g)
        /\ self[g].status = "INFEASIBLE"
        /\ self[g].schedule # <<>>
        /\ PriorFor(g) # EmptyBag

-----------------------------------------------------------------------------
(* Courses without a faculty link *)

\* the stored links hold one of the course for the call's semester and year
HasLink(g, course_id) ==
    \E i \in DOMAIN db.faculty_assignments :
        /\ db.faculty_assignments[i].course_id = course_id
        /\ db.faculty_assignments[i].semester = self[g].semester
        /\ db.faculty_assignments[i].academic_year = self[g].academic_year

\* create_variables has run to its end
VariablesCreated(g) ==
    \/ pc[g] \in {"add_constraints", "solve", "save_delete", "save_insert",
                  "return_success", "return_failure"}
    \/ pc[g] = "done" /\ self[g].status # "UNSOLVED"

\* add_constraints has run
ModelBuilt(g) ==
    VariablesCreated(g) /\ pc[g] # "add_constraints" /\ args[g].respect_constraints

\* the generator object had the course at position c not been loaded
WithoutCourse(G, c) ==
    LET rest == [G EXCEPT !.courses = SubSeqAt(G.courses, DOMAIN G.courses \ {c})]
    IN [rest EXCEPT !.schedule = CreateVariablesOf(rest)]

(* C13: a course with no faculty-assignment link for the semester and year gets
   no variable and no entry, and the variables and the constraints built for the
   remaining courses are those built had the course not been loaded. *)
C13_UnlinkedCourseIgnored ==
    \A g \in Gens :
        \A c \in DOMAIN self[g].courses :
            (VariablesCreated(g) /\ ~HasLink(g, self[g].courses[c].id)) =>
                /\ ~HasVariable(g, self[g].courses[c].id)
                /\ EntriesOf(solution[g].entries, self[g].courses[c].id) = 0
                /\ \E G \in {WithoutCourse(self[g], c)} :
                      /\ self[g].schedule = G.schedule
                      /\ ModelBuilt(g) => self[g].model = AddConstraintsOf(G)

\* a constrained call that loaded a course with hours but no link returned a
\* solution for the other course
C13_Witness ==
    \E g \in Gens :
        /\ result[g].success
        /\ args[g].respect_constraints
        /\ \E c, d \in DOMAIN self[g].courses :
              /\ ~HasLink(g, self[g].courses[c].id)
              /\ RequiredHours(self[g].courses[c]) > 0
              /\ EntriesOf(result[g].solution.entries, self[g].courses[d].id) > 0

-----------------------------------------------------------------------------
(* Slot identity *)

SameTime(s, t) ==
    /\ s.day_of_week = t.day_of_week
    /\ s.start_time = t.start_time
    /\ s.end_time = t.end_time

(* C14 as claimed: no solution built with constraints assigns one faculty
   member, or one room, to two entries whose slots have equal day, start and
   end, even when the two slot records have different identifiers. *)
C14_AsClaimed ==
    \A g \in Gens :
        (args[g].respect_constraints /\ SolveReturned(g)) =>
            \A i, j \in DOMAIN solution[g].entries :
                (i # j /\ SameTime(solution[g].entries[i].slot,
                                   solution[g].entries[j].slot)) =>
                    /\ solution[g].entries[i].faculty_id # solution[g].entries[j].faculty_id
                    /\ solution[g].entries[i].room_id # solution[g].entries[j].room_id

-----------------------------------------------------------------------------
(* Scenarios *)

\* the call loaded exactly two courses, each of one weekly session, both linked
\* to one and the same single faculty member
TwoCoursesOneFaculty(G) ==
    /\ Len(G.courses) = 2
    /\ G.courses[1].id # G.courses[2].id
    /\ \A c \in DOMAIN G.courses :
          /\ RequiredHours(G.courses[c]) = 1
          /\ G.courses[c].id \in DOMAIN G.assignments
          /\ Len(G.assignments[G.courses[c].id]) = 1
    /\ G.assignments[G.courses[1].id] = G.assignments[G.courses[2].id]

\* scenario A: one room suitable for both courses in both of two distinct
\* slots, in which the faculty member is available
ScenarioA(g) ==
    LET G == self[g]
    IN /\ TwoCoursesOneFaculty(G)
       /\ Len(G.time_slots) = 2
       /\ G.time_slots[1].id # G.time_slots[2].id
       /\ \E r \in DOMAIN G.rooms :
             \A q \in DOMAIN G.rooms, c \in DOMAIN G.courses, t \in DOMAIN G.time_slots :
                 IsRoomSuitable(G.courses[c], G.rooms[q], G.time_slots[t]) <=> q = r
       /\ \A t \in DOMAIN G.time_slots :
             ~FacultyBlocked(G.faculty,
                             [faculty_id |-> G.assignments[G.courses[1].id][1],
                              slot |-> G.time_slots[t]])

(* C15: scenario A. With one faculty member linked to two courses of one weekly
   session each, one room suitable for both and two distinct compatible slots,
   the model built with constraints is feasible and every solution solve returns
   has exactly two entries, one per course, in different slots. *)
C15_ScenarioA ==
    \A g \in Gens :
        (ScenarioA(g) /\ args[g].respect_constraints) =>
            /\ self[g].status # "INFEASIBLE"
            /\ pc[g] = "solve" => Assignments(self[g]) # {}
            /\ SolveReturned(g) =>
                  /\ Len(solution[g].entries) = 2
                  /\ solution[g].entries[1].course_id # solution[g].entries[2].course_id
                  /\ solution[g].entries[1].time_slot_id # solution[g].entries[2].time_slot_id

\* generate returned the two-entry solution of scenario A
C15_Witness ==
    \E g \in Gens :
        /\ ScenarioA(g)
        /\ args[g].respect_constraints
        /\ result[g].success
        /\ Len(result[g].solution.entries) = 2

\* scenario B: both courses have variables, all of them in one and the same slot
ScenarioB(g) ==
    /\ VariablesCreated(g)
    /\ TwoCoursesOneFaculty(self[g])
    /\ \A c \in DOMAIN self[g].courses : HasVariable(g, self[g].courses[c].id)
    /\ \A i, j \in DOMAIN self[g].schedule :
          self[g].schedule[i].slot_id = self[g].schedule[j].slot_id

(* C16: scenario B. With two courses of one session each, both linked only to
   the same single faculty member, and exactly one compatible slot, the model
   built with constraints has no solution, solve returns none, and generate
   returns the failure 'Could not find a feasible solution'. *)
C16_ScenarioB ==
    \A g \in Gens :
        (ScenarioB(g) /\ args[g].respect_constraints) =>
            /\ pc[g] = "solve" => Assignments(self[g]) = {}
            /\ ~SolveReturned(g)
            /\ ~Truthy(solution[g])
            /\ result[g].returned => result[g] = FailureResult

\* generate returned after the solver proved scenario B infeasible, with two
\* rooms to choose from
C16_Witness ==
    \E g \in Gens :
        /\ ScenarioB(g)
        /\ args[g].respect_constraints
        /\ result[g].returned
        /\ self[g].status = "INFEASIBLE"
        /\ \E i, j \in DOMAIN self[g].schedule :
              self[g].schedule[i].room_id # self[g].schedule[j].room_id

\* scenario D: a course of five weekly sessions whose variables lie in at least
\* five slots, all on one day
ScenarioD(g) ==
    /\ VariablesCreated(g)
    /\ \E c \in DOMAIN self[g].courses :
          LET mine == {i \in DOMAIN self[g].schedule :
                          self[g].schedule[i].course_id = self[g].courses[c].id}
          IN /\ RequiredHours(self[g].courses[c]) = 5
             /\ Cardinality({self[g].schedule[i].slot_id : i \in mine}) >= 5
             /\ Cardinality({self[g].schedule[i].slot.day_of_week : i \in mine}) = 1

(* C17: scenario D. A course with required_sessions = 5 whose candidate slots,
   at least five, all fall on a single day has no solution when constraints are
   built: the coverage equality and the per-day cap of 2 alone cannot both be
   met, the model is infeasible and solve returns no solution. *)
C17_ScenarioD ==
    \A g \in Gens :
        (ScenarioD(g) /\ args[g].respect_constraints) =>
            /\ ~SolveReturned(g)
            /\ ~Truthy(solution[g])
            /\ pc[g] = "solve" =>
                  /\ Assignments(self[g]) = {}
                  /\ \A asg \in SUBSET DOMAIN self[g].schedule :
                        ~Satisfies(CourseHoursConstraint(self[g].schedule)
                                     \cup DistributionConstraint(self[g].schedule), asg)

\* generate returned after the solver proved scenario D infeasible
C17_Witness ==
    \E g \in Gens :
        /\ ScenarioD(g)
        /\ args[g].respect_constraints
        /\ result[g].returned
        /\ self[g].status = "INFEASIBLE"

-----------------------------------------------------------------------------
(* The heuristic generators *)

RunOf(fn) == nep.fn = fn /\ nep.pc \notin {"off", "idle"}

\* the entries generated so far, of all days
NepEntries == UNION {Range(nep.schedule[d]) : d \in DOMAIN nep.schedule}

(* C18: scenario C. A heuristic run given an empty teacher list raises no error
   in resolving the teacher field, and that field is the placeholder in every
   generated entry: 'TBA' in generate_nep_compliant_schedule, None in
   _create_balanced_schedule, whose only error is the ValueError of a course
   category outside priority_order. *)
C18_EmptyTeacherList ==
    nep.teachers = <<>> =>
        /\ RunOf("generate_nep_compliant_schedule") =>
              /\ nep.pc # "raised"
              /\ \A e \in NepEntries : e.teacher = TBA
        /\ RunOf("_create_balanced_schedule") =>
              /\ \A e \in NepEntries : e.teacher = None
              /\ nep.pc = "raised" =>
                    /\ nep.error = "ValueError"
                    /\ \E i \in DOMAIN nep.subjects :
                          ~HasPriority(nep.subjects[i].nep_category)

\* generate_nep_compliant_schedule returned a day of at least four entries for
\* an empty teacher list
C18_Witness ==
    /\ nep.teachers = <<>>
    /\ RunOf("generate_nep_compliant_schedule")
    /\ nep.pc = "returned"
    /\ Cardinality(NepEntries) >= 4

\* two of the time_slots rows that _create_balanced_schedule uses are on one day
\* and have the same start and end
SharedHourUsed ==
    LET ts == nep.time_slots
        place(i) == Cardinality({k \in 1..i : ts[k].day_of_week = ts[i].day_of_week})
    IN \E i, j \in DOMAIN ts :
          /\ i < j
          /\ ts[i].day_of_week \in 0..4
          /\ ts[i].day_of_week = ts[j].day_of_week
          /\ ts[i].start_time = ts[j].start_time
          /\ ts[i].end_time = ts[j].end_time
          /\ place(j) <= 6
          /\ place(j) <= Len(nep.subjects)

\* two entries of a day have the same time and the same teacher or classroom
BalancedDoubleBooked ==
    \E d \in DOMAIN nep.schedule :
        \E i, j \in DOMAIN nep.schedule[d] :
            /\ i # j
            /\ nep.schedule[d][i].time_slot = nep.schedule[d][j].time_slot
            /\ \/ /\ nep.schedule[d][i].teacher = nep.schedule[d][j].teacher
                  /\ nep.schedule[d][i].teacher # None
               \/ /\ nep.schedule[d][i].classroom = nep.schedule[d][j].classroom
                  /\ nep.schedule[d][i].classroom # None

(* C19: the heuristic strategy can double-book. _create_balanced_schedule looks
   at no other entry when it assigns a teacher and a classroom: whenever two of
   the slot rows it uses on a day have the same start and end and there is just
   one teacher or just one classroom, its output assigns that teacher, or that
   classroom, to two entries of the same day and time. *)
C19_DoubleBooking ==
    (/\ RunOf("_create_balanced_schedule")
     /\ nep.pc = "returned"
     /\ SharedHourUsed
     /\ Len(nep.teachers) = 1 \/ Len(nep.classrooms) = 1) =>
        BalancedDoubleBooked

\* an output of _create_balanced_schedule with one teacher in two entries of
\* the same day and time
C19_Witness ==
    /\ RunOf("_create_balanced_schedule")
    /\ nep.pc = "returned"
    /\ \E d \in DOMAIN nep.schedule :
          \E i, j \in DOMAIN nep.schedule[d] :
              /\ i # j
              /\ nep.schedule[d][i].time_slot = nep.schedule[d][j].time_slot
              /\ nep.schedule[d][i].teacher = nep.schedule[d][j].teacher
              /\ nep.schedule[d][i].teacher # None

\* the entries of day d with the subject code
Placements(d, code) ==
    Cardinality({i \in DOMAIN nep.schedule[d] : nep.schedule[d][i].subject_code = code})

PoolCodes == {nep.subject_pool[i].code : i \in DOMAIN nep.subject_pool}

(* C20: in generate_nep_compliant_schedule a subject is placed a third time on
   a day only when every subject of the pool has been placed at least twice on
   that day; with three or more distinct subject codes in the pool, no subject
   code occurs more than twice on any day. *)
C20_ThirdPlacement ==
    RunOf("generate_nep_compliant_schedule") =>
        \A d \in DOMAIN nep.schedule :
            /\ \A code \in PoolCodes :
                  Placements(d, code) >= 3 =>
                      \A other \in PoolCodes : Placements(d, other) >= 2
            /\ Cardinality(PoolCodes) >= 3 =>
                  \A code \in PoolCodes : Placements(d, code) <= 2

\* a day on which a subject of a pool of two codes is placed a third time
C20_Witness ==
    /\ RunOf("generate_nep_compliant_schedule")
    /\ Cardinality(PoolCodes) = 2
    /\ \E d \in DOMAIN nep.schedule :
          \E code \in PoolCodes : Placements(d, code) >= 3

-----------------------------------------------------------------------------
(* Classrooms of lab subjects *)

\* 'LAB' in classroom type
LabTyped(classroom) == In(Text_LAB, classroom.type)

\* the entry is of a subject that is skill-based or has 'lab' in its name
LabRequiring(e) == e.is_skill_based \/ e.is_lab

\* the classrooms of the run that carry the name
ClassroomsNamed(name) == {c \in Range(nep.classrooms) : c.name = name}

(* C21 as claimed: in generate_nep_compliant_schedule, which assigns classrooms
   with assign_classroom_by_type, every entry of a lab-requiring subject names a
   lab-typed classroom whenever the classroom list holds a lab-typed classroom;
   a classroom that is not lab-typed is chosen only when there is none. *)
C21_AsClaimed ==
    RunOf("generate_nep_compliant_schedule") =>
        \A e \in NepEntries :
            (LabRequiring(e) /\ \E c \in Range(nep.classrooms) : LabTyped(c)) =>
                /\ ClassroomsNamed(e.classroom) # {}
                /\ \A c \in ClassroomsNamed(e.classroom) : LabTyped(c)

-----------------------------------------------------------------------------
(* Compliance reports *)

\* the sum of the values of a function with a finite domain
RECURSIVE SumValues(_)
SumValues(f) ==
    IF DOMAIN f = {} THEN 0
    ELSE LET x == CHOOSE x \in DOMAIN f : TRUE
         IN f[x] + SumValues([y \in DOMAIN f \ {x} |-> f[y]])

\* the credits of the subjects reported on, by position; a subject without
\* credits counts 0
CreditsGiven == [i \in DOMAIN report.subjects |-> Get(report.subjects[i], "credits", 0)]

InBand(n) == 18 <= n /\ n <= 22

(* C22: in both implementations is_compliant is true exactly when the sum of
   the credits of the given subjects is between 18 and 22 inclusive, and
   total_credits equals the sum of the per-category sums of the distribution. *)
C22_ComplianceBand ==
    /\ report.compliance # None =>
          /\ report.compliance.is_compliant <=> InBand(SumValues(CreditsGiven))
          /\ report.compliance.total_credits = SumValues(report.compliance.distribution)
    /\ report.curriculum # None =>
          /\ report.curriculum.nep_compliance.is_compliant
                 <=> InBand(SumValues(CreditsGiven))
          /\ report.curriculum.nep_compliance.total_credits
                 = SumValues(report.curriculum.credit_distribution)

\* both reports of a list of 22 credits in three categories
C22_Witness ==
    /\ report.compliance # None
    /\ report.curriculum # None
    /\ report.compliance.is_compliant
    /\ report.curriculum.nep_compliance.is_compliant
    /\ report.compliance.total_credits = 22
    /\ Cardinality(DOMAIN report.compliance.distribution) = 3

(* C30 as claimed: calculate_nep_compliance and _check_nep_compliance return the
   same total_credits, is_compliant, has_multidisciplinary and
   has_skill_component for every list of subjects, also for a list with a
   multidisciplinary (MDC) subject that carries 0 credits. *)
C30_AsClaimed ==
    (report.compliance # None /\ report.curriculum # None) =>
        /\ report.compliance.total_credits
               = report.curriculum.nep_compliance.total_credits
        /\ report.compliance.is_compliant
               = report.curriculum.nep_compliance.is_compliant
        /\ report.compliance.has_multidisciplinary
               = report.curriculum.nep_compliance.has_multidisciplinary
        /\ report.compliance.has_skill_component
               = report.curriculum.nep_compliance.has_skill_component

-----------------------------------------------------------------------------
(* Availability, daily cap and consecutive sessions *)

\* the stored availability record of the faculty member marks the day
\* available = false, under the key str(day)
MarkedUnavailable(faculty_id, day) ==
    \E i \in DOMAIN db.faculty :
        /\ db.faculty[i].id = faculty_id
        /\ Str(day) \in DOMAIN db.faculty[i].availability
        /\ "available" \in DOMAIN db.faculty[i].availability[Str(day)]
        /\ db.faculty[i].availability[Str(day)].available = FALSE

(* C23: with constraints enforced, no entry of a solution assigns a faculty
   member to a slot whose day is marked available = false in that member's
   availability record, which is keyed by the day number as a string. *)
C23_AvailabilityRespected ==
    \A g \in Gens :
        (args[g].respect_constraints /\ SolveReturned(g)) =>
            \A i \in DOMAIN solution[g].entries :
                ~MarkedUnavailable(solution[g].entries[i].faculty_id,
                                   solution[g].entries[i].slot.day_of_week)

\* a constrained solution uses a faculty member on one day who has candidate
\* slots on another day, which is marked unavailable
C23_Witness ==
    \E g \in Gens :
        /\ args[g].respect_constraints
        /\ SolveReturned(g)
        /\ \E i \in DOMAIN solution[g].entries, v \in DOMAIN self[g].schedule :
              /\ self[g].schedule[v].faculty_id = solution[g].entries[i].faculty_id
              /\ MarkedUnavailable(self[g].schedule[v].faculty_id,
                                   self[g].schedule[v].slot.day_of_week)

\* the entries of the solution of call g for the course on the day
EntriesOn(g, course_id, day) ==
    {i \in DOMAIN solution[g].entries :
        /\ solution[g].entries[i].course_id = course_id
        /\ solution[g].entries[i].slot.day_of_week = day}

\* the variables of call g for the course on the day
VariablesOn(g, course_id, day) ==
    {v \in DOMAIN self[g].schedule :
        /\ self[g].schedule[v].course_id = course_id
        /\ self[g].schedule[v].slot.day_of_week = day}

(* C24: with constraints enforced, every solution has at most 2 entries of a
   course on any single day of the week, counted over all rooms and faculty. *)
C24_DailyCap ==
    \A g \in Gens :
        (args[g].respect_constraints /\ SolveReturned(g)) =>
            \A i \in DOMAIN solution[g].entries :
                Cardinality(EntriesOn(g, solution[g].entries[i].course_id,
                                      solution[g].entries[i].slot.day_of_week)) <= 2

\* a constrained solution with two entries of a course on a day on which the
\* course has more than two variables, in two rooms and with two faculty members
C24_Witness ==
    \E g \in Gens :
        /\ args[g].respect_constraints
        /\ SolveReturned(g)
        /\ \E i \in DOMAIN solution[g].entries :
              LET e == solution[g].entries[i]
                  mine == EntriesOn(g, e.course_id, e.slot.day_of_week)
              IN /\ Cardinality(mine) = 2
                 /\ Cardinality(VariablesOn(g, e.course_id, e.slot.day_of_week)) > 2
                 /\ Cardinality({solution[g].entries[j].room_id : j \in mine}) = 2
                 /\ Cardinality({solution[g].entries[j].faculty_id : j \in mine}) = 2

\* the distinct candidate slots of the course on the day, sorted by start time:
\* the slot at place n (counted from 1), as its slot_id
CandidateSlots(g, course_id, day) ==
    LET sch == self[g].schedule
        ids == {sch[v].slot_id : v \in VariablesOn(g, course_id, day)}
        first(id) == CHOOSE v \in VariablesOn(g, course_id, day) :
                        /\ sch[v].slot_id = id
                        /\ \A w \in VariablesOn(g, course_id, day) :
                              sch[w].slot_id = id => v <= w
        before(a, b) ==
            \/ sch[first(a)].slot.start_time < sch[first(b)].slot.start_time
            \/ /\ sch[first(a)].slot.start_time = sch[first(b)].slot.start_time
               /\ first(a) < first(b)
    IN [n \in 1..Cardinality(ids) |->
           CHOOSE a \in ids : Cardinality({b \in ids : before(b, a)}) = n - 1]

\* the assignment places a course in all three slots of a window of three
\* consecutive distinct candidate slots of a day
ThreeInARow(g, asg) ==
    LET sch == self[g].schedule
    IN \E v \in DOMAIN sch :
          LET slots == CandidateSlots(g, sch[v].course_id, sch[v].slot.day_of_week)
              placed(id) == \E a \in asg :
                               /\ sch[a].course_id = sch[v].course_id
                               /\ sch[a].slot_id = id
          IN \E n \in 1..(Len(slots) - 2) :
                placed(slots[n]) /\ placed(slots[n + 1]) /\ placed(slots[n + 2])

(* C25 as claimed: the consecutive-session cap is built over the candidate slots
   of a course on a day sorted by start time, one window per three consecutive
   distinct slots: an assignment violates it exactly when it places the course
   in all three slots of such a window, so that it never restricts how many
   room or faculty variables of one and the same slot are chosen. *)
C25_AsClaimed ==
    \A g \in Gens :
        VariablesCreated(g) =>
            \A asg \in SUBSET DOMAIN self[g].schedule :
                Satisfies(ConsecutiveHoursConstraint(self[g].schedule), asg)
                    <=> ~ThreeInARow(g, asg)

-----------------------------------------------------------------------------
(* Room capacity *)

\* the number of students a room must hold for the course: the number of its
\* enrollment records, or 30 when it has none
SeatsNeeded(course_id) ==
    IF db.enrollments[course_id] = 0 THEN 30 ELSE db.enrollments[course_id]

(* C26: a (course, room, slot) triple yields variables only if the capacity of
   the room is at least the enrollment count of the course, a course without
   enrollment records counting as 30 students; so the room of every entry of a
   solution has that capacity, with or without constraint enforcement. *)
C26_CapacityCovers ==
    \A g \in Gens :
        /\ \A v \in DOMAIN self[g].schedule :
              self[g].schedule[v].room.capacity
                  >= SeatsNeeded(self[g].schedule[v].course_id)
        /\ \A i \in DOMAIN solution[g].entries :
              solution[g].entries[i].room.capacity
                  >= SeatsNeeded(solution[g].entries[i].course_id)

\* a solution that uses a room of fewer than 30 seats for a course with
\* enrollment records, of a call that loaded a course without any, which has
\* variables
C26_Witness ==
    \E g \in Gens :
        /\ \E i \in DOMAIN solution[g].entries :
              /\ solution[g].entries[i].room.capacity < 30
              /\ db.enrollments[solution[g].entries[i].course_id] > 0
        /\ \E v \in DOMAIN self[g].schedule :
              db.enrollments[self[g].schedule[v].course_id] = 0

-----------------------------------------------------------------------------
(* Custom constraint records *)

\* the generator object had no constraint record been stored
WithoutConstraints(G) ==
    LET bare == [G EXCEPT !.constraints = <<>>]
    IN [bare EXCEPT !.model = AddConstraintsOf(bare)]

(* C27: custom constraint records have no effect on the exact model. For the
   same courses, links, rooms and slots, the constraints built and the set of
   solutions admitted with the stored hard and soft records are those of an
   empty constraint list. *)
C27_CustomConstraintsInert ==
    \A g \in Gens :
        ModelBuilt(g) =>
            \E G \in {WithoutConstraints(self[g])} :
                /\ self[g].model = G.model
                /\ pc[g] = "solve" => Assignments(self[g]) = Assignments(G)

\* a model with constraints and more than one solution was built by a call that
\* loaded a hard and a soft record
C27_Witness ==
    \E g \in Gens :
        /\ ModelBuilt(g)
        /\ pc[g] = "solve"
        /\ self[g].model # {}
        /\ Cardinality(Assignments(self[g])) > 1
        /\ \E i, j \in DOMAIN self[g].constraints :
              /\ self[g].constraints[i].is_hard_constraint
              /\ ~self[g].constraints[j].is_hard_constraint

-----------------------------------------------------------------------------
(* Courses of fewer hours than weeks *)

(* C28 as claimed: a course with non-zero total hours but required_sessions = 0,
   that is with 1 to 14 total hours, has no entry in any solution built with
   constraints, just like a course with zero total hours. *)
C28_AsClaimed ==
    \A g \in Gens :
        (args[g].respect_constraints /\ SolveReturned(g)) =>
            \A i \in DOMAIN solution[g].entries :
                LET total_hours == solution[g].entries[i].course.theory_hours
                                     + solution[g].entries[i].course.practical_hours
                                     + solution[g].entries[i].course.tutorial_hours
                IN ~(1 <= total_hours /\ total_hours <= 14)

-----------------------------------------------------------------------------
(* The rows of the other keys *)

\* the rows of a table stored under a key, as a bag
StoredIn(table, key) ==
    LET mine == {r \in DOMAIN table : <<r.semester, r.academic_year>> = key}
    IN [r \in mine |-> table[r]]

\* call g is in save_to_database
Saving(g) == pc[g] \in {"save_delete", "save_insert"}

(* C29: save_to_database for the key (semester, academic_year) leaves the rows
   stored under every other key unchanged: a step changes the rows of a key
   only if it is a step of a save for that key, since the delete matches both
   values and every inserted row carries the key. *)
C29_OtherKeysUnchanged ==
    [][\A key \in AllKeys :
          StoredIn(timetable_entries', key) # StoredIn(timetable_entries, key) =>
              \E g \in Gens : Saving(g) /\ KeyOfCall(g) = key]_vars

\* a save has replaced the rows of its key by two entries, and the table holds
\* rows of the same semester and another year, and of the same year and
\* another semester
C29_Witness ==
    \E g \in Gens :
        /\ pc[g] = "return_success"
        /\ SaveReturned(g, "True")
        /\ Len(solution[g].entries) = 2
        /\ StoredFor(g) # PriorFor(g)
        /\ \E r, q \in DOMAIN timetable_entries :
              /\ r.semester = self[g].semester /\ r.academic_year # self[g].academic_year
              /\ q.semester # self[g].semester /\ q.academic_year = self[g].academic_year

====
